---- MODULE Spec2Model ----
(***************************************************************************)
(* Free Block Engine: the Block Graph Model (Block, BlockEngine) as a      *)
(* state machine.  A JavaScript Map is a sequence of entries keyed by      *)
(* their id field: iteration order is insertion order, set() on a present  *)
(* key replaces the entry in place, set() on an absent key appends.        *)
(* Timestamps are abstracted: a block's metadata is TRUE when the metadata *)
(* object exists and FALSE when it is undefined.                           *)
(***************************************************************************)
EXTENDS Integers, Sequences, FiniteSets, TLC

\* Bounds of the model: the blocks the store may hold (and the ids that
\* occur), the block records of an imported document, and the greatest x at
\* which createBlock may still auto-place a block (each auto-placement moves
\* defaultSpacing to the right of the rightmost block, without limit), the
\* entries of a links array of a document, and the blocks of the stores on
\* which auto-placement is studied (a tie takes two blocks and a third one
\* to place).
MaxBlocks == 2
MaxDocBlocks == 2
MaxCoord == 650
MaxDocLinks == 2
MaxLayoutBlocks == 3

\* The ids that occur: generateId draws from them, calls and documents name
\* them; an id of the pool that no block of the store has is an unknown id.
Ids == 1..MaxBlocks

VARIABLES
  blocks,    \* BlockEngine.blocks: sequence of Block records, in Map order
  settings,  \* BlockEngine.settings
  call,      \* the name of the operation executed last
  ret,       \* what that operation returned (or that it threw)
  events,    \* the events that operation published, in order
  input,     \* what that operation was given: the document of importFromJSON,
             \* the two rectangles of getConnectionPoint
  eventListeners,  \* BlockEngine.eventListeners: event type -> callbacks
  invoked,   \* the listener calls that operation made, in order
  selectedBlocks,  \* BlockRenderer.selectedBlocks: a set of block ids
  linkEditor,      \* BlockRenderer.linkEditor: null, or the popup of a block
  container,       \* the ids of the block elements in BlockRenderer.container
  timers     \* the callbacks given to setTimeout(..., 0) that have not run

vars ==
  <<blocks, settings, call, ret, events, input, eventListeners, invoked,
    selectedBlocks, linkEditor, container, timers>>

\* The state of the page (BlockRenderer and the timer queue): no operation
\* of BlockEngine writes it.
rendererVars == <<selectedBlocks, linkEditor, container, timers>>

(***************************************************************************)
(* Map as a sequence of records with an id field                           *)
(***************************************************************************)
Keys(m) == {m[i].id : i \in DOMAIN m}

MapHas(m, k) == k \in Keys(m)

MapGet(m, k) == m[CHOOSE i \in DOMAIN m : m[i].id = k]

\* Mutant of Map.set: the entry is added even when the key is there already.
MapSetAppend(m, k, v) == Append(m, v)

MapSet(m, k, v) ==
  IF MapHas(m, k)
    THEN [i \in DOMAIN m |-> IF m[i].id = k THEN v ELSE m[i]]
    ELSE Append(m, v)

MapDelete(m, k) == SelectSeq(m, LAMBDA e : e.id # k)

(***************************************************************************)
(* class Block                                                             *)
(***************************************************************************)
Block(id, content, type) ==
  [id |-> id, content |-> content, type |-> type, links |-> <<>>,
   position |-> [x |-> 0, y |-> 0],
   size |-> [width |-> 250, height |-> 250],
   metadata |-> TRUE]

\* Every mutator ends with this.metadata.updatedAt = ...: a TypeError when
\* metadata is undefined, raised after the field itself has been written.
TouchThrows(b) == ~b.metadata

BlockSetContent(b, content) == [b EXCEPT !.content = content]

BlockSetPosition(b, x, y) == [b EXCEPT !.position = [x |-> x, y |-> y]]

BlockSetSize(b, width, height) ==
  [b EXCEPT !.size = [width |-> width, height |-> height]]

BlockAddLink(b, blockId, linkType) ==
  [b EXCEPT !.links = MapSet(@, blockId, [id |-> blockId, type |-> linkType])]

\* Mutant of removeLink: the whole links table is cleared.
BlockRemoveLinkClears(b, blockId) == [b EXCEPT !.links = <<>>]

BlockRemoveLink(b, blockId) == [b EXCEPT !.links = MapDelete(@, blockId)]

BlockHasLink(b, blockId) == MapHas(b.links, blockId)

BlockGetLinkType(b, blockId) ==
  IF MapHas(b.links, blockId) THEN MapGet(b.links, blockId).type ELSE "null"

(***************************************************************************)
(* Sequential execution with exceptions: st = [blocks, threw, events,      *)
(* listeners, invoked].  A step on a state that has thrown does nothing.   *)
(***************************************************************************)
Start(bs) ==
  [blocks |-> bs, threw |-> FALSE, events |-> <<>>,
   listeners |-> eventListeners, invoked |-> <<>>]

Ev(type, a, b, t) == [type |-> type, a |-> a, b |-> b, t |-> t]

EventTypes ==
  {"blockCreated", "blockMoved", "blockResized", "blockUpdated", "blocksLinked",
   "blocksUnlinked", "blockDeleted", "blocksArranged", "blocksImported"}

(***************************************************************************)
(* The callbacks given to on().  A callback is a function of the caller;   *)
(* the ones here are told apart by what they do when they are called:      *)
(* "render" and "updateConnections" read the store and return, "boom"      *)
(* raises an error, "once" calls off(event, itself) and returns.           *)
(***************************************************************************)
Callbacks == {"render", "updateConnections", "boom", "once"}

Throws(cb) == cb = "boom"

RemovesItself(cb) == cb = "once"

\* listeners.indexOf(callback), then listeners.splice(index, 1) if index > -1
Splice(listeners, callback) ==
  IF \E i \in DOMAIN listeners : listeners[i] = callback
    THEN LET index == CHOOSE i \in DOMAIN listeners :
                        /\ listeners[i] = callback
                        /\ \A j \in 1..(i - 1) : listeners[j] # callback
         IN [i \in 1..(Len(listeners) - 1) |->
               IF i < index THEN listeners[i] ELSE listeners[i + 1]]
    ELSE listeners

\* Mutant of the forEach of emit: a listener that raises does not stop the
\* calls of the listeners after it.
RECURSIVE ForEachListenerIsolated(_, _, _, _)
ForEachListenerIsolated(st, e, k, len) ==
  IF k > len THEN st
  ELSE LET listeners == st.listeners[e.type]
       IN IF k > Len(listeners) THEN ForEachListenerIsolated(st, e, k + 1, len)
          ELSE LET callback == listeners[k]
                   s1 == [st EXCEPT
                            !.invoked = Append(@, [cb |-> callback, event |-> e,
                                                   seen |-> st.blocks]),
                            !.listeners[e.type] =
                              IF RemovesItself(callback) THEN Splice(@, callback) ELSE @,
                            !.threw = @ \/ Throws(callback)]
               IN ForEachListenerIsolated(s1, e, k + 1, len)

(***************************************************************************)
(* this.eventListeners.get(event).forEach(callback => { callback(data) }): *)
(* forEach reads the length once (len) and visits index k only while the   *)
(* array still has it; the array is the live one, so a splice made by a    *)
(* callback shifts the elements after it.  Each call is recorded with the  *)
(* store as the callback finds it (seen).                                  *)
(***************************************************************************)
RECURSIVE ForEachListener(_, _, _, _)
ForEachListener(st, e, k, len) ==
  IF st.threw \/ k > len THEN st
  ELSE LET listeners == st.listeners[e.type]
       IN IF k > Len(listeners) THEN ForEachListener(st, e, k + 1, len)
          ELSE LET callback == listeners[k]
                   s1 == [st EXCEPT
                            !.invoked = Append(@, [cb |-> callback, event |-> e,
                                                   seen |-> st.blocks]),
                            !.listeners[e.type] =
                              IF RemovesItself(callback) THEN Splice(@, callback) ELSE @,
                            !.threw = Throws(callback)]
               IN ForEachListener(s1, e, k + 1, len)

\* BlockEngine.emit: the event is published to the listeners of its type.
Emit(st, e) ==
  IF st.threw THEN st
  ELSE ForEachListener([st EXCEPT !.events = Append(@, e)], e, 1,
                       Len(st.listeners[e.type]))

XRemoveLink(st, id, target) ==
  IF st.threw THEN st
  ELSE LET b == MapGet(st.blocks, id)
       IN [st EXCEPT !.blocks = MapSet(@, id, BlockRemoveLink(b, target)),
                     !.threw = TouchThrows(b)]

XAddLink(st, id, target, linkType) ==
  IF st.threw THEN st
  ELSE LET b == MapGet(st.blocks, id)
       IN [st EXCEPT !.blocks = MapSet(@, id, BlockAddLink(b, target, linkType)),
                     !.threw = TouchThrows(b)]

Result(st) == IF st.threw THEN [v |-> "throw"] ELSE [v |-> "true"]

(***************************************************************************)
(* class BlockEngine: queries                                              *)
(***************************************************************************)
HasBlock(id) == MapHas(blocks, id)

GetBlock(id) == MapGet(blocks, id)

\* Mutants of getLinkInfo: the reverse edge reported in the caller's order,
\* and hasReverse read from the wrong block.
GetLinkInfoNoSwap(bs, fromId, toId) ==
  IF ~MapHas(bs, fromId) \/ ~MapHas(bs, toId) THEN [v |-> "null"]
  ELSE LET hasForward == BlockHasLink(MapGet(bs, fromId), toId)
           hasReverse == BlockHasLink(MapGet(bs, toId), fromId)
       IN IF hasForward /\ hasReverse
            THEN [v |-> "info", type |-> "double", from |-> fromId, to |-> toId]
          ELSE IF hasForward
            THEN [v |-> "info", type |-> "single", from |-> fromId, to |-> toId]
          ELSE IF hasReverse
            THEN [v |-> "info", type |-> "reverse", from |-> fromId, to |-> toId]
          ELSE [v |-> "null"]

GetLinkInfoSameBlock(bs, fromId, toId) ==
  IF ~MapHas(bs, fromId) \/ ~MapHas(bs, toId) THEN [v |-> "null"]
  ELSE LET hasForward == BlockHasLink(MapGet(bs, fromId), toId)
           hasReverse == BlockHasLink(MapGet(bs, fromId), toId)
       IN IF hasForward /\ hasReverse
            THEN [v |-> "info", type |-> "double", from |-> fromId, to |-> toId]
          ELSE IF hasForward
            THEN [v |-> "info", type |-> "single", from |-> fromId, to |-> toId]
          ELSE IF hasReverse
            THEN [v |-> "info", type |-> "reverse", from |-> toId, to |-> fromId]
          ELSE [v |-> "null"]

GetLinkInfo(bs, fromId, toId) ==
  IF ~MapHas(bs, fromId) \/ ~MapHas(bs, toId) THEN [v |-> "null"]
  ELSE LET hasForward == BlockHasLink(MapGet(bs, fromId), toId)
           hasReverse == BlockHasLink(MapGet(bs, toId), fromId)
       IN IF hasForward /\ hasReverse
            THEN [v |-> "info", type |-> "double", from |-> fromId, to |-> toId]
          ELSE IF hasForward
            THEN [v |-> "info", type |-> "single", from |-> fromId, to |-> toId]
          ELSE IF hasReverse
            THEN [v |-> "info", type |-> "reverse", from |-> toId, to |-> fromId]
          ELSE [v |-> "null"]

GetIncomingLinks(bs, id) ==
  SelectSeq(bs, LAMBDA b : BlockHasLink(b, id))

(***************************************************************************)
(* linkBlocks / updateLinkType / unlinkBlocks / deleteBlock                *)
(***************************************************************************)
\* Mutants of linkBlocks: the edge back is not cleared; a present forward
\* edge is toggled off; "double" adds the forward edge only.
LinkBlocksBodyKeepsBack(bs, fromId, toId, linkType) ==
  LET s2 == XRemoveLink(Start(bs), fromId, toId)
      s3 == IF linkType = "single" THEN XAddLink(s2, fromId, toId, "single")
            ELSE IF linkType = "reverse" THEN XAddLink(s2, toId, fromId, "single")
            ELSE IF linkType = "double"
              THEN XAddLink(XAddLink(s2, fromId, toId, "double"),
                            toId, fromId, "double")
            ELSE s2
  IN Emit(s3, Ev("blocksLinked", fromId, toId, linkType))

LinkBlocksBodyToggle(bs, fromId, toId, linkType) ==
  LET present == BlockHasLink(MapGet(bs, fromId), toId)
      s1 == XRemoveLink(Start(bs), fromId, toId)
      s2 == XRemoveLink(s1, toId, fromId)
      s3 == IF present THEN s2
            ELSE IF linkType = "single" THEN XAddLink(s2, fromId, toId, "single")
            ELSE IF linkType = "reverse" THEN XAddLink(s2, toId, fromId, "single")
            ELSE IF linkType = "double"
              THEN XAddLink(XAddLink(s2, fromId, toId, "double"),
                            toId, fromId, "double")
            ELSE s2
  IN Emit(s3, Ev("blocksLinked", fromId, toId, linkType))

LinkBlocksBodyDoubleOneWay(bs, fromId, toId, linkType) ==
  LET s1 == XRemoveLink(Start(bs), fromId, toId)
      s2 == XRemoveLink(s1, toId, fromId)
      s3 == IF linkType = "single" THEN XAddLink(s2, fromId, toId, "single")
            ELSE IF linkType = "reverse" THEN XAddLink(s2, toId, fromId, "single")
            ELSE IF linkType = "double" THEN XAddLink(s2, fromId, toId, "double")
            ELSE s2
  IN Emit(s3, Ev("blocksLinked", fromId, toId, linkType))

LinkBlocksBody(bs, fromId, toId, linkType) ==
  LET s1 == XRemoveLink(Start(bs), fromId, toId)
      s2 == XRemoveLink(s1, toId, fromId)
      s3 == IF linkType = "single" THEN XAddLink(s2, fromId, toId, "single")
            ELSE IF linkType = "reverse" THEN XAddLink(s2, toId, fromId, "single")
            ELSE IF linkType = "double"
              THEN XAddLink(XAddLink(s2, fromId, toId, "double"),
                            toId, fromId, "double")
            ELSE s2
  IN Emit(s3, Ev("blocksLinked", fromId, toId, linkType))

\* Mutant of linkBlocks: the forward edge is removed before toId is looked up.
LinkBlocksRunLateCheck(fromId, toId, linkType) ==
  IF ~HasBlock(fromId)
    THEN /\ ret' = [v |-> "false"]
         /\ events' = <<>>
         /\ invoked' = <<>>
         /\ UNCHANGED eventListeners
         /\ UNCHANGED <<blocks, settings>>
  ELSE IF ~HasBlock(toId)
    THEN /\ blocks' = XRemoveLink(Start(blocks), fromId, toId).blocks
         /\ ret' = [v |-> "false"]
         /\ events' = <<>>
         /\ invoked' = <<>>
         /\ UNCHANGED eventListeners
         /\ UNCHANGED settings
    ELSE LET st == LinkBlocksBody(blocks, fromId, toId, linkType)
         IN /\ blocks' = st.blocks
            /\ ret' = Result(st)
            /\ events' = st.events
            /\ invoked' = st.invoked
            /\ eventListeners' = st.listeners
            /\ UNCHANGED settings

LinkBlocksRun(fromId, toId, linkType) ==
  IF ~HasBlock(fromId) \/ ~HasBlock(toId)
    THEN /\ ret' = [v |-> "false"]
         /\ events' = <<>>
         /\ invoked' = <<>>
         /\ UNCHANGED eventListeners
         /\ UNCHANGED <<blocks, settings>>
    ELSE LET st == LinkBlocksBody(blocks, fromId, toId, linkType)
         IN /\ blocks' = st.blocks
            /\ ret' = Result(st)
            /\ events' = st.events
            /\ invoked' = st.invoked
            /\ eventListeners' = st.listeners
            /\ UNCHANGED settings

LinkBlocks(fromId, toId, linkType) ==
  /\ call' = "linkBlocks"
  /\ LinkBlocksRun(fromId, toId, linkType)

\* Mutant of updateLinkType: only a pair that is linked already is updated.
UpdateLinkTypeOnlyLinked(fromId, toId, newLinkType) ==
  /\ call' = "updateLinkType"
  /\ IF /\ HasBlock(fromId) /\ HasBlock(toId)
        /\ ~BlockHasLink(GetBlock(fromId), toId)
        /\ ~BlockHasLink(GetBlock(toId), fromId)
       THEN /\ ret' = [v |-> "false"]
            /\ events' = <<>>
            /\ invoked' = <<>>
            /\ UNCHANGED eventListeners
            /\ UNCHANGED <<blocks, settings>>
       ELSE LinkBlocksRun(fromId, toId, newLinkType)

UpdateLinkType(fromId, toId, newLinkType) ==
  /\ call' = "updateLinkType"
  /\ LinkBlocksRun(fromId, toId, newLinkType)

\* Mutant of unlinkBlocks: only the edge from fromId to toId is removed.
UnlinkBlocksBodyOneSide(bs, fromId, toId) ==
  LET s1 == IF MapHas(bs, fromId)
              THEN XRemoveLink(Start(bs), fromId, toId) ELSE Start(bs)
  IN Emit(s1, Ev("blocksUnlinked", fromId, toId, ""))

UnlinkBlocksBody(bs, fromId, toId) ==
  LET s1 == IF MapHas(bs, fromId)
              THEN XRemoveLink(Start(bs), fromId, toId) ELSE Start(bs)
      s2 == IF MapHas(bs, toId) THEN XRemoveLink(s1, toId, fromId) ELSE s1
  IN Emit(s2, Ev("blocksUnlinked", fromId, toId, ""))

UnlinkBlocks(fromId, toId) ==
  /\ call' = "unlinkBlocks"
  /\ IF ~HasBlock(fromId) /\ ~HasBlock(toId)
       THEN /\ ret' = [v |-> "false"]
            /\ events' = <<>>
            /\ invoked' = <<>>
            /\ UNCHANGED eventListeners
            /\ UNCHANGED <<blocks, settings>>
       ELSE LET st == UnlinkBlocksBody(blocks, fromId, toId)
            IN /\ blocks' = st.blocks
               /\ ret' = Result(st)
               /\ events' = st.events
               /\ invoked' = st.invoked
               /\ eventListeners' = st.listeners
               /\ UNCHANGED settings

\* this.blocks.forEach(b => { if (b.hasLink(id)) b.removeLink(id); })
RECURSIVE PurgeLinksTo(_, _, _)
PurgeLinksTo(st, i, id) ==
  IF i > Len(st.blocks) THEN st
  ELSE LET b == st.blocks[i]
       IN PurgeLinksTo(IF BlockHasLink(b, id) THEN XRemoveLink(st, b.id, id) ELSE st,
                       i + 1, id)

DeleteBlockBody(bs, id) ==
  LET s1 == PurgeLinksTo(Start(bs), 1, id)
      s2 == IF s1.threw THEN s1 ELSE [s1 EXCEPT !.blocks = MapDelete(@, id)]
  IN Emit(s2, Ev("blockDeleted", id, 0, ""))

\* Mutant of deleteBlock: the links to id are removed before id is looked up.
DeleteBlockPurgesFirst(id) ==
  /\ call' = "deleteBlock"
  /\ IF ~HasBlock(id)
       THEN /\ blocks' = PurgeLinksTo(Start(blocks), 1, id).blocks
            /\ ret' = [v |-> "false"]
            /\ events' = <<>>
            /\ invoked' = <<>>
            /\ UNCHANGED eventListeners
            /\ UNCHANGED settings
       ELSE LET st == DeleteBlockBody(blocks, id)
            IN /\ blocks' = st.blocks
               /\ ret' = Result(st)
               /\ events' = st.events
               /\ invoked' = st.invoked
               /\ eventListeners' = st.listeners
               /\ UNCHANGED settings

DeleteBlock(id) ==
  /\ call' = "deleteBlock"
  /\ IF ~HasBlock(id)
       THEN /\ ret' = [v |-> "false"]
            /\ events' = <<>>
            /\ invoked' = <<>>
            /\ UNCHANGED eventListeners
            /\ UNCHANGED <<blocks, settings>>
       ELSE LET st == DeleteBlockBody(blocks, id)
            IN /\ blocks' = st.blocks
               /\ ret' = Result(st)
               /\ events' = st.events
               /\ invoked' = st.invoked
               /\ eventListeners' = st.listeners
               /\ UNCHANGED settings

(***************************************************************************)
(* createBlock, getAutoPosition, setBlockPosition/Size/Content, arrange    *)
(***************************************************************************)
Null == [null |-> TRUE]

Pos(x, y) == [null |-> FALSE, x |-> x, y |-> y]

Size(width, height) == [null |-> FALSE, width |-> width, height |-> height]

\* Mutant of the scan of getAutoPosition: a block as far right as the
\* rightmost so far replaces it.
RECURSIVE RightmostFromLastWins(_, _, _)
RightmostFromLastWins(bs, i, acc) ==
  IF i > Len(bs) THEN acc
  ELSE RightmostFromLastWins(bs, i + 1,
         IF bs[i].position.x >= acc.x
           THEN [x |-> bs[i].position.x, y |-> bs[i].position.y]
           ELSE acc)

\* blocks.forEach(block => { if (block.position.x > maxX) {...} })
RECURSIVE RightmostFrom(_, _, _)
RightmostFrom(bs, i, acc) ==
  IF i > Len(bs) THEN acc
  ELSE RightmostFrom(bs, i + 1,
         IF bs[i].position.x > acc.x
           THEN [x |-> bs[i].position.x, y |-> bs[i].position.y]
           ELSE acc)

GetAutoPosition(bs) ==
  IF Len(bs) = 0 THEN [x |-> 50, y |-> 50]
  ELSE LET m == RightmostFrom(bs, 1, [x |-> 0, y |-> 50])
       IN [x |-> m.x + settings.defaultSpacing, y |-> m.y]

\* Mutant of Math.round: Math.floor.
MathRoundFloor(n, d) == n \div d

\* Math.round(n / d) for integers n and d > 0: halves go towards +Infinity.
MathRound(n, d) == (2 * n + d) \div (2 * d)

SnapToGrid(v) == MathRound(v, settings.gridSize) * settings.gridSize

Max(a, b) == IF a > b THEN a ELSE b

\* Mutant of createBlock: blockCreated is published before the block is stored.
CreateBlockBodyEmitsFirst(bs, id, content, type, position, size) ==
  LET b0 == Block(id, content, type)
      b1 == IF position.null
              THEN LET autoPos == GetAutoPosition(bs)
                   IN BlockSetPosition(b0, autoPos.x, autoPos.y)
              ELSE BlockSetPosition(b0, position.x, position.y)
      b2 == IF size.null THEN b1 ELSE BlockSetSize(b1, size.width, size.height)
      s1 == Emit(Start(bs), Ev("blockCreated", id, 0, ""))
  IN IF s1.threw THEN s1 ELSE [s1 EXCEPT !.blocks = MapSet(@, id, b2)]

CreateBlockBody(bs, id, content, type, position, size) ==
  LET b0 == Block(id, content, type)
      b1 == IF position.null
              THEN LET autoPos == GetAutoPosition(bs)
                   IN BlockSetPosition(b0, autoPos.x, autoPos.y)
              ELSE BlockSetPosition(b0, position.x, position.y)
      b2 == IF size.null THEN b1 ELSE BlockSetSize(b1, size.width, size.height)
  IN Emit([Start(bs) EXCEPT !.blocks = MapSet(@, id, b2)],
          Ev("blockCreated", id, 0, ""))

CreateBlock(id, content, type, position, size) ==
  LET st == CreateBlockBody(blocks, id, content, type, position, size)
  IN /\ call' = "createBlock"
     /\ blocks' = st.blocks
     /\ events' = st.events
     /\ invoked' = st.invoked
     /\ eventListeners' = st.listeners
     /\ ret' = IF st.threw THEN [v |-> "throw"] ELSE [v |-> "block", id |-> id]
     /\ UNCHANGED settings

XSetBlockPosition(st, id, x, y, snapToGrid) ==
  IF st.threw THEN st
  ELSE LET b == MapGet(st.blocks, id)
           nx == IF snapToGrid THEN SnapToGrid(x) ELSE x
           ny == IF snapToGrid THEN SnapToGrid(y) ELSE y
       IN Emit([st EXCEPT !.blocks = MapSet(@, id, BlockSetPosition(b, nx, ny)),
                          !.threw = TouchThrows(b)],
               Ev("blockMoved", id, 0, ""))

SetBlockPosition(id, x, y, snapToGrid) ==
  /\ call' = "setBlockPosition"
  /\ IF ~HasBlock(id)
       THEN /\ ret' = [v |-> "false"]
            /\ events' = <<>>
            /\ invoked' = <<>>
            /\ UNCHANGED eventListeners
            /\ UNCHANGED <<blocks, settings>>
       ELSE LET st == XSetBlockPosition(Start(blocks), id, x, y, snapToGrid)
            IN /\ blocks' = st.blocks
               /\ ret' = Result(st)
               /\ events' = st.events
               /\ invoked' = st.invoked
               /\ eventListeners' = st.listeners
               /\ UNCHANGED settings

SetBlockSizeBody(bs, id, width, height) ==
  LET b == MapGet(bs, id)
      w == Max(width, settings.minBlockWidth)
      h == Max(height, settings.minBlockHeight)
  IN Emit([Start(bs) EXCEPT !.blocks = MapSet(@, id, BlockSetSize(b, w, h)),
                            !.threw = TouchThrows(b)],
          Ev("blockResized", id, 0, ""))

SetBlockSize(id, width, height) ==
  /\ call' = "setBlockSize"
  /\ IF ~HasBlock(id)
       THEN /\ ret' = [v |-> "false"]
            /\ events' = <<>>
            /\ invoked' = <<>>
            /\ UNCHANGED eventListeners
            /\ UNCHANGED <<blocks, settings>>
       ELSE LET st == SetBlockSizeBody(blocks, id, width, height)
            IN /\ blocks' = st.blocks
               /\ ret' = Result(st)
               /\ events' = st.events
               /\ invoked' = st.invoked
               /\ eventListeners' = st.listeners
               /\ UNCHANGED settings

SetBlockContentBody(bs, id, content) ==
  LET b == MapGet(bs, id)
  IN Emit([Start(bs) EXCEPT !.blocks = MapSet(@, id, BlockSetContent(b, content)),
                            !.threw = TouchThrows(b)],
          Ev("blockUpdated", id, 0, ""))

SetBlockContent(id, content) ==
  /\ call' = "setBlockContent"
  /\ IF ~HasBlock(id)
       THEN /\ ret' = [v |-> "false"]
            /\ events' = <<>>
            /\ invoked' = <<>>
            /\ UNCHANGED eventListeners
            /\ UNCHANGED <<blocks, settings>>
       ELSE LET st == SetBlockContentBody(blocks, id, content)
            IN /\ blocks' = st.blocks
               /\ ret' = Result(st)
               /\ events' = st.events
               /\ invoked' = st.invoked
               /\ eventListeners' = st.listeners
               /\ UNCHANGED settings

\* blocks.forEach((block, index) => this.setBlockPosition(block.id, x, y))
RECURSIVE ArrangeFrom(_, _, _)
ArrangeFrom(st, i, columns) ==
  IF i > Len(st.blocks) THEN st
  ELSE LET index == i - 1
           col == index % columns
           row == index \div columns
           x == 50 + col * settings.defaultSpacing
           y == 50 + row * settings.defaultSpacing
       IN ArrangeFrom(XSetBlockPosition(st, st.blocks[i].id, x, y, TRUE),
                      i + 1, columns)

ArrangeBlocksBody(bs, columns) ==
  Emit(ArrangeFrom(Start(bs), 1, columns), Ev("blocksArranged", Len(bs), 0, ""))

ArrangeBlocks(columns) ==
  LET st == ArrangeBlocksBody(blocks, columns)
  IN /\ call' = "arrangeBlocks"
     /\ blocks' = st.blocks
     /\ ret' = IF st.threw THEN [v |-> "throw"] ELSE [v |-> "undefined"]
     /\ events' = st.events
     /\ invoked' = st.invoked
     /\ eventListeners' = st.listeners
     /\ UNCHANGED settings

(***************************************************************************)
(* importFromJSON.  A document is                                          *)
(*   [parses, hasSettings, settings, hasBlocks, blocks]                    *)
(* and a block record of it                                                *)
(*   [isNull, id, content, type, hasLinks, links, hasPosition, position,   *)
(*    hasSize, size, hasMetadata]                                          *)
(* with link entries [kind, id, type]: kind "string" is the legacy bare    *)
(* id, "object" the current format (type "" when the key is absent).       *)
(***************************************************************************)
LinkString(id) == [kind |-> "string", id |-> id, type |-> ""]

LinkObject(id, type) == [kind |-> "object", id |-> id, type |-> type]

\* Mutant of the links loop: bare id strings are skipped.
RECURSIVE ImportLinksObjectsOnly(_, _, _)
ImportLinksObjectsOnly(acc, entries, i) ==
  IF acc.threw \/ i > Len(entries) THEN acc
  ELSE LET link == entries[i]
       IN ImportLinksObjectsOnly(
            IF link.kind = "string" THEN acc
            ELSE IF link.kind = "object"
              THEN [acc EXCEPT !.links =
                      MapSet(@, link.id,
                             [id |-> link.id,
                              type |-> IF link.type = "" THEN "single"
                                       ELSE link.type])]
            ELSE [acc EXCEPT !.threw = TRUE],
            entries, i + 1)

\* blockData.links.forEach(link => block.links.set(...)); null.id throws
RECURSIVE ImportLinks(_, _, _)
ImportLinks(acc, entries, i) ==
  IF acc.threw \/ i > Len(entries) THEN acc
  ELSE LET link == entries[i]
       IN ImportLinks(
            IF link.kind = "string"
              THEN [acc EXCEPT !.links =
                      MapSet(@, link.id, [id |-> link.id, type |-> "single"])]
            ELSE IF link.kind = "object"
              THEN [acc EXCEPT !.links =
                      MapSet(@, link.id,
                             [id |-> link.id,
                              type |-> IF link.type = "" THEN "single"
                                       ELSE link.type])]
            ELSE [acc EXCEPT !.threw = TRUE],
            entries, i + 1)

ImportBlock(blockData) ==
  LET b0 == Block(blockData.id, blockData.content, blockData.type)
      ls == IF blockData.hasLinks
              THEN ImportLinks([links |-> <<>>, threw |-> FALSE], blockData.links, 1)
              ELSE [links |-> <<>>, threw |-> FALSE]
  IN [threw |-> ls.threw,
      block |-> [b0 EXCEPT
                   !.links = ls.links,
                   !.position = IF blockData.hasPosition THEN blockData.position
                                ELSE [x |-> 0, y |-> 0],
                   !.size = IF blockData.hasSize THEN blockData.size
                            ELSE [width |-> 250, height |-> 150],
                   !.metadata = blockData.hasMetadata]]

\* data.blocks.forEach(blockData => { ...; this.blocks.set(block.id, block) })
RECURSIVE ImportBlocks(_, _, _)
ImportBlocks(st, records, i) ==
  IF st.threw \/ i > Len(records) THEN st
  ELSE IF records[i].isNull THEN [st EXCEPT !.threw = TRUE]
  ELSE LET r == ImportBlock(records[i])
       IN ImportBlocks(
            IF r.threw THEN [st EXCEPT !.threw = TRUE]
            ELSE [st EXCEPT !.blocks = MapSet(@, r.block.id, r.block)],
            records, i + 1)

\* Object.assign(this.settings, data.settings)
MergeSettings(old, new) ==
  [k \in (DOMAIN old) \cup (DOMAIN new) |->
     IF k \in DOMAIN new THEN new[k] ELSE old[k]]

\* Mutant of importFromJSON: the store is not cleared before the records
\* are installed.
ImportFromJSONNoClear(doc) ==
  /\ call' = "importFromJSON"
  /\ IF ~doc.parses
       THEN /\ ret' = [v |-> "false"]
            /\ events' = <<>>
            /\ invoked' = <<>>
            /\ UNCHANGED eventListeners
            /\ UNCHANGED <<blocks, settings>>
       ELSE LET s0 == Start(blocks)
                st == IF doc.hasBlocks THEN ImportBlocks(s0, doc.blocks, 1)
                      ELSE [s0 EXCEPT !.threw = TRUE]
                s2 == Emit(st, Ev("blocksImported",
                                  IF doc.hasBlocks THEN Len(doc.blocks) ELSE 0, 0, ""))
            IN /\ settings' = IF doc.hasSettings
                                THEN MergeSettings(settings, doc.settings)
                                ELSE settings
               /\ blocks' = s2.blocks
               /\ ret' = IF s2.threw THEN [v |-> "false"] ELSE [v |-> "true"]
               /\ events' = s2.events
               /\ invoked' = s2.invoked
               /\ eventListeners' = s2.listeners

\* Mutant of importFromJSON: the store is cleared before the text is parsed.
ImportFromJSONClearsFirst(doc) ==
  /\ call' = "importFromJSON"
  /\ IF ~doc.parses
       THEN /\ ret' = [v |-> "false"]
            /\ blocks' = <<>>
            /\ events' = <<>>
            /\ invoked' = <<>>
            /\ UNCHANGED eventListeners
            /\ UNCHANGED settings
       ELSE LET s0 == Start(<<>>)
                st == IF doc.hasBlocks THEN ImportBlocks(s0, doc.blocks, 1)
                      ELSE [s0 EXCEPT !.threw = TRUE]
                s2 == Emit(st, Ev("blocksImported",
                                  IF doc.hasBlocks THEN Len(doc.blocks) ELSE 0, 0, ""))
            IN /\ settings' = IF doc.hasSettings
                                THEN MergeSettings(settings, doc.settings)
                                ELSE settings
               /\ blocks' = s2.blocks
               /\ ret' = IF s2.threw THEN [v |-> "false"] ELSE [v |-> "true"]
               /\ events' = s2.events
               /\ invoked' = s2.invoked
               /\ eventListeners' = s2.listeners

ImportFromJSON(doc) ==
  /\ call' = "importFromJSON"
  /\ IF ~doc.parses
       THEN /\ ret' = [v |-> "false"]
            /\ events' = <<>>
            /\ invoked' = <<>>
            /\ UNCHANGED eventListeners
            /\ UNCHANGED <<blocks, settings>>
       ELSE LET s0 == Start(<<>>)
                st == IF doc.hasBlocks THEN ImportBlocks(s0, doc.blocks, 1)
                      ELSE [s0 EXCEPT !.threw = TRUE]
                s2 == Emit(st, Ev("blocksImported",
                                  IF doc.hasBlocks THEN Len(doc.blocks) ELSE 0, 0, ""))
            IN /\ settings' = IF doc.hasSettings
                                THEN MergeSettings(settings, doc.settings)
                                ELSE settings
               /\ blocks' = s2.blocks
               /\ ret' = IF s2.threw THEN [v |-> "false"] ELSE [v |-> "true"]
               /\ events' = s2.events
               /\ invoked' = s2.invoked
               /\ eventListeners' = s2.listeners

(***************************************************************************)
(* exportToJSON: JSON.stringify of { settings, blocks: [block.toJSON()] }, *)
(* as the document JSON.parse reads back.  A link entry is written as an   *)
(* object { id, type, createdAt }; a key whose value is undefined (the     *)
(* metadata of a block imported without it) is left out of the text.       *)
(***************************************************************************)
\* Mutant of Block.toJSON: the links written as the legacy list of bare ids.
BlockToJSONLegacyLinks(b) ==
  [isNull |-> FALSE, id |-> b.id, content |-> b.content, type |-> b.type,
   hasLinks |-> TRUE,
   links |-> [j \in DOMAIN b.links |-> LinkString(b.links[j].id)],
   hasPosition |-> TRUE, position |-> b.position,
   hasSize |-> TRUE, size |-> b.size,
   hasMetadata |-> b.metadata]

BlockToJSON(b) ==
  [isNull |-> FALSE, id |-> b.id, content |-> b.content, type |-> b.type,
   hasLinks |-> TRUE,
   links |-> [j \in DOMAIN b.links |->
                LinkObject(b.links[j].id, b.links[j].type)],
   hasPosition |-> TRUE, position |-> b.position,
   hasSize |-> TRUE, size |-> b.size,
   hasMetadata |-> b.metadata]

ExportToJSON(bs, s) ==
  [parses |-> TRUE, hasSettings |-> TRUE, settings |-> s,
   hasBlocks |-> TRUE, blocks |-> [i \in DOMAIN bs |-> BlockToJSON(bs[i])]]

(***************************************************************************)
(* The store as a state machine                                            *)
(***************************************************************************)
DefaultSettings ==
  [gridSize |-> 20, defaultSpacing |-> 300, minBlockWidth |-> 150,
   minBlockHeight |-> 100]

\* The value of input after an operation that takes no document.
NoDoc == [none |-> TRUE]

Init ==
  /\ blocks = <<>>
  /\ settings = DefaultSettings
  /\ call = "new"
  /\ ret = [v |-> "undefined"]
  /\ events = <<>>
  /\ input = NoDoc
  /\ eventListeners = [t \in EventTypes |-> <<>>]
  /\ invoked = <<>>
  /\ selectedBlocks = {}
  /\ linkEditor = Null
  /\ container = {}
  /\ timers = <<>>

\* generateId: an id no block of the store has.
FreshIds == Ids \ Keys(blocks)

LinkTypeInputs == {"single", "reverse", "double", "other"}

\* Documents: n block records with ids 1..n; the first may carry one link
\* entry, in the legacy or the current format, to any id of the pool; the
\* records carry metadata or (all of them) omit it.
DocRecord(id, links, hasMetadata) ==
  [isNull |-> FALSE, id |-> id, content |-> "", type |-> "default",
   hasLinks |-> TRUE, links |-> links,
   hasPosition |-> TRUE, position |-> [x |-> 50, y |-> 50],
   hasSize |-> TRUE, size |-> [width |-> 250, height |-> 250],
   hasMetadata |-> hasMetadata]

DocLinkEntries ==
  {LinkString(id) : id \in Ids}
    \cup {LinkObject(id, t) : id \in Ids, t \in {"", "double", "reverse"}}

DocOf(records) ==
  [parses |-> TRUE, hasSettings |-> FALSE, settings |-> <<>>,
   hasBlocks |-> TRUE, blocks |-> records]

Docs ==
  {DocOf([i \in 1..n |-> DocRecord(i, IF i = 1 THEN ls ELSE <<>>, m)]) :
     n \in 0..MaxDocBlocks,
     ls \in {<<>>} \cup {<<e>> : e \in DocLinkEntries},
     m \in BOOLEAN}

\* importFromJSON(text), where text parses to the document d.
Import(d) == ImportFromJSON(d) /\ input' = d /\ UNCHANGED rendererVars

\* importFromJSON(exportToJSON())
ExportImport == Import(ExportToJSON(blocks, settings))

Next ==
  \/ \E id \in FreshIds :
       /\ Len(blocks) < MaxBlocks
       /\ GetAutoPosition(blocks).x <= MaxCoord
       /\ CreateBlock(id, "A", "default", Null, Null)
       /\ input' = NoDoc /\ UNCHANGED rendererVars
  \/ \E id \in Ids : DeleteBlock(id) /\ input' = NoDoc /\ UNCHANGED rendererVars
  \/ \E a, b \in Ids, t \in LinkTypeInputs :
       LinkBlocks(a, b, t) /\ input' = NoDoc /\ UNCHANGED rendererVars
  \/ \E a, b \in Ids, t \in LinkTypeInputs :
       UpdateLinkType(a, b, t) /\ input' = NoDoc /\ UNCHANGED rendererVars
  \/ \E a, b \in Ids : UnlinkBlocks(a, b) /\ input' = NoDoc /\ UNCHANGED rendererVars
  \/ \E d \in Docs : Import(d)
  \/ ExportImport

Spec == Init /\ [][Next]_vars

(***************************************************************************)
(* The serializer: importFromJSON over documents of every shape it tells   *)
(* apart, on stores that createBlock and earlier imports have filled.      *)
(***************************************************************************)
\* A block record with nothing but its id, content and type.
MinimalRecord(id) ==
  [DocRecord(id, <<>>, FALSE) EXCEPT
     !.hasLinks = FALSE, !.hasPosition = FALSE, !.hasSize = FALSE]

\* null in the blocks array, and null in a links array.
NullRecord == [isNull |-> TRUE]

NullLink == [kind |-> "null"]

\* Link entries: a bare id, an object without type, an object with type,
\* and null.
ImportLinkEntries ==
  {LinkString(id) : id \in Ids}
    \cup {LinkObject(1, ""), LinkObject(MaxBlocks, "double"), NullLink}

ImportLinkLists ==
  UNION {[1..k -> ImportLinkEntries] : k \in 0..MaxDocLinks}

\* The first record of a document is any record; the records after it are
\* plain ones (or null).
FirstRecords ==
  {DocRecord(id, ls, TRUE) : id \in Ids, ls \in ImportLinkLists}
    \cup {MinimalRecord(id) : id \in Ids} \cup {NullRecord}

LaterRecords == {DocRecord(id, <<>>, TRUE) : id \in Ids} \cup {NullRecord}

RecordLists ==
  {<<>>} \cup
  {<<f>> \o r : f \in FirstRecords,
                r \in UNION {[1..k -> LaterRecords] : k \in 0..(MaxDocBlocks - 1)}}

\* data.settings: absent, or an object with some of the keys.
SettingsInputs == {[gridSize |-> 10]}

Unparseable ==
  [parses |-> FALSE, hasSettings |-> FALSE, settings |-> <<>>,
   hasBlocks |-> FALSE, blocks |-> <<>>]

ImportDocs ==
  {Unparseable}
    \cup {[parses |-> TRUE, hasSettings |-> FALSE, settings |-> <<>>,
           hasBlocks |-> hb, blocks |-> IF hb THEN rs ELSE <<>>] :
            hb \in BOOLEAN, rs \in RecordLists}
    \cup {[parses |-> TRUE, hasSettings |-> TRUE, settings |-> st,
           hasBlocks |-> hb, blocks |-> IF hb THEN rs ELSE <<>>] :
            hb \in BOOLEAN, rs \in RecordLists, st \in SettingsInputs}

NextImport ==
  \/ \E id \in FreshIds :
       /\ Len(blocks) < MaxBlocks
       /\ GetAutoPosition(blocks).x <= MaxCoord
       /\ CreateBlock(id, "A", "default", Null, Null)
       /\ input' = NoDoc /\ UNCHANGED rendererVars
  \/ \E d \in ImportDocs : Import(d)
  \/ ExportImport

SpecImport == Init /\ [][NextImport]_vars

(***************************************************************************)
(* The stored edges, read off the state                                    *)
(***************************************************************************)
Intents == {"single", "reverse", "double"}

EdgeSet(bs) ==
  UNION {{<<bs[i].id, bs[i].links[j].id, bs[i].links[j].type>> :
            j \in DOMAIN bs[i].links} : i \in DOMAIN bs}

HasEdge(bs, a, b) == \E e \in EdgeSet(bs) : e[1] = a /\ e[2] = b

Succeeded(op) == call = op /\ ret.v = "true"

(***************************************************************************)
(* C1: after any sequence of store operations no links table holds the id  *)
(* of a block that is not in the store.                                    *)
(***************************************************************************)
C1_NoDanglingLinks == \A e \in EdgeSet(blocks) : MapHas(blocks, e[2])

(***************************************************************************)
(* C2: every stored link entry has type "single" or "double".              *)
(***************************************************************************)
C2_LinkTypesSingleOrDouble ==
  \A e \in EdgeSet(blocks) : e[3] \in {"single", "double"}

(***************************************************************************)
(* C3: deleteBlock(x) on an existing block returns true, removes x and     *)
(* removes the entry keyed x from every remaining block, so that           *)
(* getIncomingLinks(x) is empty.                                           *)
(***************************************************************************)
C3_DeleteBlockPurges ==
  [][\A x \in Ids :
       (HasBlock(x) /\ DeleteBlock(x)) =>
         /\ ret'.v = "true"
         /\ ~MapHas(blocks', x)
         /\ \A e \in EdgeSet(blocks') : e[2] # x
         /\ GetIncomingLinks(blocks', x) = <<>>]_vars

EdgeTypes(bs, a, b) == {e[3] : e \in {f \in EdgeSet(bs) : f[1] = a /\ f[2] = b}}

Linked(a, b, t) ==
  Succeeded("linkBlocks") /\ events = <<Ev("blocksLinked", a, b, t)>>

NoEdgeBetween(bs, a, b) == ~HasEdge(bs, a, b) /\ ~HasEdge(bs, b, a)

(***************************************************************************)
(* C4: a successful linkBlocks(a,b,intent) on distinct blocks leaves       *)
(* exactly the edges of the intent between the pair, whatever was there.   *)
(***************************************************************************)
C4_LinkBlocksEdgeState ==
  \A a, b \in Ids, t \in Intents :
    (a # b /\ Linked(a, b, t)) =>
      CASE t = "single" ->
             EdgeTypes(blocks, a, b) = {"single"} /\ EdgeTypes(blocks, b, a) = {}
        [] t = "reverse" ->
             EdgeTypes(blocks, b, a) = {"single"} /\ EdgeTypes(blocks, a, b) = {}
        [] t = "double" ->
             EdgeTypes(blocks, a, b) = {"double"} /\ EdgeTypes(blocks, b, a) = {"double"}

C4_Witness ==
  /\ Linked(1, 2, "single")
  /\ EdgeSet(blocks) = {<<1, 2, "single">>}

(***************************************************************************)
(* C5: linkBlocks is idempotent: from every store state, for every pair    *)
(* of existing blocks and every intent, a second call with the same        *)
(* arguments leaves the edges and their types as the first call left them. *)
(***************************************************************************)
C5_LinkBlocksIdempotent ==
  \A a, b \in Ids, t \in Intents :
    (HasBlock(a) /\ HasBlock(b)) =>
      LET once == LinkBlocksBody(blocks, a, b, t).blocks
          twice == LinkBlocksBody(once, a, b, t).blocks
      IN EdgeSet(twice) = EdgeSet(once)

C5_Witness ==
  /\ Linked(1, 2, "double")
  /\ EdgeSet(LinkBlocksBody(blocks, 1, 2, "double").blocks) = EdgeSet(blocks)
  /\ EdgeSet(blocks) = {<<1, 2, "double">>, <<2, 1, "double">>}

(***************************************************************************)
(* C6, as claimed (two blocks A, B): with no edge between them, after      *)
(* linkBlocks(A,B,"reverse") getLinkInfo(A,B) is {single, from B, to A}.   *)
(***************************************************************************)
C6_ReverseReportedSingle ==
  [][\A a, b \in Ids :
       (a # b /\ HasBlock(a) /\ HasBlock(b) /\ NoEdgeBetween(blocks, a, b)
          /\ LinkBlocks(a, b, "reverse")) =>
         GetLinkInfo(blocks', a, b) =
           [v |-> "info", type |-> "single", from |-> b, to |-> a]]_vars

(***************************************************************************)
(* C6, amended: for existing A, B with no edge between them, after         *)
(* linkBlocks(A,B,"reverse") returns true, getLinkInfo(A,B) has type       *)
(* "reverse" ("double" when A and B are the same block), from B and to A.  *)
(***************************************************************************)
C6_ReverseNormalization ==
  [][\A a, b \in Ids :
       (HasBlock(a) /\ HasBlock(b) /\ NoEdgeBetween(blocks, a, b)
          /\ LinkBlocks(a, b, "reverse") /\ ret'.v = "true") =>
         GetLinkInfo(blocks', a, b) =
           [v |-> "info", type |-> IF a = b THEN "double" ELSE "reverse",
            from |-> b, to |-> a]]_vars

C6_Witness ==
  /\ Linked(1, 2, "reverse")
  /\ EdgeSet(blocks) = {<<2, 1, "single">>}
  /\ GetLinkInfo(blocks, 1, 2) =
       [v |-> "info", type |-> "reverse", from |-> 2, to |-> 1]

(***************************************************************************)
(* C7: after linkBlocks(A,B,"double") returns true, getLinkInfo reports    *)
(* "double" in both argument orders and each block has a link to the other.*)
(***************************************************************************)
C7_DoubleSymmetry ==
  \A a, b \in Ids :
    Linked(a, b, "double") =>
      /\ GetLinkInfo(blocks, a, b).v = "info"
      /\ GetLinkInfo(blocks, a, b).type = "double"
      /\ GetLinkInfo(blocks, b, a).v = "info"
      /\ GetLinkInfo(blocks, b, a).type = "double"
      /\ BlockHasLink(GetBlock(a), b)
      /\ BlockHasLink(GetBlock(b), a)

C7_Witness ==
  /\ Linked(2, 1, "double")
  /\ GetLinkInfo(blocks, 1, 2).type = "double"
  /\ HasEdge(blocks, 1, 2) /\ HasEdge(blocks, 2, 1)

(***************************************************************************)
(* C8: getLinkInfo(from,to) is null when either id is unknown or neither   *)
(* edge is stored, "double" when both edges are stored, and "single" with  *)
(* from = fromId, to = toId when only the edge from -> to is stored.       *)
(***************************************************************************)
C8_GetLinkInfoClassifies ==
  \A a, b \in Ids :
    LET r == GetLinkInfo(blocks, a, b)
        known == a \in Keys(blocks) /\ b \in Keys(blocks)
        fwd == HasEdge(blocks, a, b)
        back == HasEdge(blocks, b, a)
    IN /\ ~known => r = [v |-> "null"]
       /\ (known /\ fwd /\ back) => (r.v = "info" /\ r.type = "double")
       /\ (known /\ fwd /\ ~back) =>
            r = [v |-> "info", type |-> "single", from |-> a, to |-> b]
       /\ (known /\ ~fwd /\ ~back) => r = [v |-> "null"]

C8_Witness ==
  /\ EdgeSet(blocks) = {<<1, 1, "single">>, <<1, 2, "single">>}
  /\ Keys(blocks) = {1, 2}
  /\ GetLinkInfo(blocks, 1, 1).type = "double"
  /\ GetLinkInfo(blocks, 1, 2).type = "single"
  /\ GetLinkInfo(blocks, 2, 2).v = "null"

(***************************************************************************)
(* C9: linkBlocks with an id that is not in the store returns false,       *)
(* changes no block and publishes no event.                                *)
(***************************************************************************)
C9_LinkBlocksUnknownId ==
  [][\A a, b \in Ids, t \in LinkTypeInputs :
       ((~HasBlock(a) \/ ~HasBlock(b)) /\ LinkBlocks(a, b, t)) =>
         (ret'.v = "false" /\ blocks' = blocks /\ events' = <<>>)]_vars

C9_Witness ==
  /\ call = "linkBlocks" /\ ret.v = "false" /\ events = <<>>
  /\ Keys(blocks) = {1}
  /\ EdgeSet(blocks) = {<<1, 2, "single">>}

(***************************************************************************)
(* C10: unlinkBlocks(a,b) returns false and publishes nothing exactly when *)
(* both ids are unknown; otherwise it returns true, publishes              *)
(* blocksUnlinked {fromId,toId}, and no a->b or b->a entry is left.        *)
(***************************************************************************)
C10_UnlinkBlocks ==
  [][\A a, b \in Ids :
       UnlinkBlocks(a, b) =>
         IF ~HasBlock(a) /\ ~HasBlock(b)
           THEN ret'.v = "false" /\ events' = <<>>
           ELSE /\ ret'.v = "true"
                /\ events' = <<Ev("blocksUnlinked", a, b, "")>>
                /\ NoEdgeBetween(blocks', a, b)]_vars

(***************************************************************************)
(* C11: updateLinkType(a,b,t) is linkBlocks(a,b,t): from every store state *)
(* and for every argument triple it returns what linkBlocks returns,       *)
(* leaves the blocks linkBlocks leaves and publishes the event linkBlocks  *)
(* publishes.                                                              *)
(***************************************************************************)
C11_UpdateLinkTypeIsLinkBlocks ==
  [][\A a, b \in Ids, t \in LinkTypeInputs :
       UpdateLinkType(a, b, t) =>
         IF ~HasBlock(a) \/ ~HasBlock(b)
           THEN ret' = [v |-> "false"] /\ blocks' = blocks /\ events' = <<>>
           ELSE LET st == LinkBlocksBody(blocks, a, b, t)
                IN /\ blocks' = st.blocks
                   /\ ret' = Result(st)
                   /\ events' = st.events]_vars

C11_Witness ==
  /\ Succeeded("updateLinkType")
  /\ events = <<Ev("blocksLinked", 1, 2, "double")>>
  /\ EdgeSet(blocks) = {<<1, 2, "double">>, <<2, 1, "double">>}

\* What a round trip has to reproduce of the blocks, in store order: id,
\* content, type, position, size and the link entries in table order.
Reproduced(bs) ==
  [i \in DOMAIN bs |->
     [id |-> bs[i].id, content |-> bs[i].content, type |-> bs[i].type,
      position |-> bs[i].position, size |-> bs[i].size,
      links |-> bs[i].links]]

(***************************************************************************)
(* C12: from every reachable store state importFromJSON(exportToJSON())    *)
(* returns true and leaves blocks with the same ids, content, type,        *)
(* position, size and link entries (targets and types, in the same order). *)
(***************************************************************************)
C12_RoundTrip ==
  [][ExportImport =>
       (ret'.v = "true" /\ Reproduced(blocks') = Reproduced(blocks))]_vars

C12_Witness ==
  /\ Succeeded("importFromJSON")
  /\ input = ExportToJSON(blocks, settings)
  /\ Keys(blocks) = {1, 2}
  /\ GetBlock(1).links =
       <<[id |-> 2, type |-> "double"], [id |-> 1, type |-> "single"]>>
  /\ GetBlock(2).links = <<[id |-> 1, type |-> "double"]>>

(***************************************************************************)
(* Layout: createBlock with auto-placement and setBlockPosition, on stores *)
(* of up to MaxLayoutBlocks blocks; imports bring in a block at the        *)
(* default position without metadata, and another grid size.               *)
(***************************************************************************)
LayoutIds == 1..MaxLayoutBlocks

\* (x, y) arguments of setBlockPosition: below, at and above the half of a
\* grid step, of either sign.
PositionInputs == {<<27, 33>>, <<27, -30>>, <<-30, 30>>}

LayoutDocs ==
  {DocOf(<<MinimalRecord(1)>>),
   [DocOf(<<DocRecord(1, <<>>, TRUE)>>) EXCEPT
      !.hasSettings = TRUE, !.settings = [gridSize |-> 60]]}

NextLayout ==
  \/ \E id \in LayoutIds \ Keys(blocks) :
       /\ Len(blocks) < MaxLayoutBlocks
       /\ GetAutoPosition(blocks).x <= MaxCoord
       /\ CreateBlock(id, "A", "default", Null, Null)
       /\ input' = NoDoc /\ UNCHANGED rendererVars
  \/ \E id \in LayoutIds, p \in PositionInputs, snapToGrid \in BOOLEAN :
       SetBlockPosition(id, p[1], p[2], snapToGrid) /\ input' = NoDoc /\ UNCHANGED rendererVars
  \/ \E d \in LayoutDocs : Import(d)

SpecLayout == Init /\ [][NextLayout]_vars

(***************************************************************************)
(* Sizes: createBlock with and without a size argument, setBlockSize, and  *)
(* imports that bring in a block without size and metadata, and another    *)
(* minimum width.                                                          *)
(***************************************************************************)
\* (width, height) arguments: below both minimums, and above both.
SizeInputs == {<<10, 10>>, <<200, 300>>}

SizeDocs ==
  {DocOf(<<MinimalRecord(1)>>),
   [DocOf(<<DocRecord(1, <<>>, TRUE)>>) EXCEPT
      !.hasSettings = TRUE, !.settings = [minBlockWidth |-> 220]]}

NextSize ==
  \/ \E id \in FreshIds, size \in {Null} \cup {Size(s[1], s[2]) : s \in SizeInputs} :
       /\ Len(blocks) < MaxBlocks
       /\ GetAutoPosition(blocks).x <= MaxCoord
       /\ CreateBlock(id, "A", "default", Null, size)
       /\ input' = NoDoc /\ UNCHANGED rendererVars
  \/ \E id \in Ids, s \in SizeInputs :
       SetBlockSize(id, s[1], s[2]) /\ input' = NoDoc /\ UNCHANGED rendererVars
  \/ \E id \in Ids : DeleteBlock(id) /\ input' = NoDoc /\ UNCHANGED rendererVars
  \/ \E d \in SizeDocs : Import(d)

SpecSize == Init /\ [][NextSize]_vars

(***************************************************************************)
(* Reading a document as the serializer claims read it                     *)
(***************************************************************************)
Imported == call = "importFromJSON"

\* The document parsed, has a blocks array, every element of it is a block
\* record and every element of a links array is a bare id or an object.
WellFormed(d) ==
  /\ d.parses /\ d.hasBlocks
  /\ \A i \in DOMAIN d.blocks :
       /\ ~d.blocks[i].isNull
       /\ d.blocks[i].hasLinks =>
            \A j \in DOMAIN d.blocks[i].links :
              d.blocks[i].links[j].kind \in {"string", "object"}

\* The record of a document that decides block id: the last one with that id.
LastRecord(d, id) ==
  d.blocks[CHOOSE i \in DOMAIN d.blocks :
             /\ d.blocks[i].id = id
             /\ \A k \in DOMAIN d.blocks : k > i => d.blocks[k].id # id]

RecordIds(d) == {d.blocks[i].id : i \in DOMAIN d.blocks}

RecordLinks(r) == IF r.hasLinks THEN r.links ELSE <<>>

(***************************************************************************)
(* C13: a document whose links arrays hold bare id strings, objects, or a  *)
(* mix of both is imported with result true; a bare id is stored as an     *)
(* edge of type "single", an object as an edge with its id and its type,   *)
(* "single" when the object has no type (of two entries of one array that  *)
(* name the same target, the later one is the stored one).                 *)
(***************************************************************************)
C13_LegacyLinks ==
  (Imported /\ WellFormed(input)) =>
    /\ ret.v = "true"
    /\ \A id \in RecordIds(input) :
         LET ls == RecordLinks(LastRecord(input, id))
             b == GetBlock(id)
         IN /\ Keys(b.links) = {ls[j].id : j \in DOMAIN ls}
            /\ \A j \in DOMAIN ls :
                 (\A k \in DOMAIN ls : k > j => ls[k].id # ls[j].id) =>
                   BlockGetLinkType(b, ls[j].id) =
                     IF ls[j].kind = "string" THEN "single"
                     ELSE IF ls[j].type = "" THEN "single"
                     ELSE ls[j].type

C13_Witness ==
  /\ Succeeded("importFromJSON")
  /\ Len(input.blocks) = 1
  /\ input.blocks[1].id = 1
  /\ input.blocks[1].links = <<LinkString(2), LinkObject(1, "")>>
  /\ GetBlock(1).links =
       <<[id |-> 2, type |-> "single"], [id |-> 1, type |-> "single"]>>

(***************************************************************************)
(* C14: whenever importFromJSON returns false on a document that parsed    *)
(* (blocks missing, or a malformed block or link record anywhere in the    *)
(* array), the store holds no block after the call.                        *)
(***************************************************************************)
C14_FailAfterClear ==
  (Imported /\ ret.v = "false" /\ input.parses) => blocks = <<>>

(***************************************************************************)
(* C15: an importFromJSON that returns true leaves exactly the blocks of   *)
(* the document (no block of the store before survives), takes every       *)
(* settings key of the document and keeps every other key, and publishes   *)
(* blocksImported once with the number of block records as count.          *)
(***************************************************************************)
C15_ImportReplaces ==
  [][(call' = "importFromJSON" /\ ret'.v = "true") =>
       /\ Keys(blocks') = RecordIds(input')
       /\ \A i \in DOMAIN blocks' :
            LET r == LastRecord(input', blocks'[i].id)
            IN blocks'[i].content = r.content /\ blocks'[i].type = r.type
       /\ \A k \in DOMAIN settings' :
            settings'[k] =
              IF input'.hasSettings /\ k \in DOMAIN input'.settings
                THEN input'.settings[k] ELSE settings[k]
       /\ DOMAIN settings' =
            DOMAIN settings \cup
              (IF input'.hasSettings THEN DOMAIN input'.settings ELSE {})
       /\ events' = <<Ev("blocksImported", Len(input'.blocks), 0, "")>>]_vars

\* Block 2 of the store ("A") is gone, the gridSize of an earlier document
\* is kept by a document without settings, two records of one id count 2.
C15_Witness ==
  /\ Succeeded("importFromJSON")
  /\ ~input.hasSettings
  /\ settings.gridSize = 10
  /\ Len(input.blocks) = 2
  /\ Keys(blocks) = {1}
  /\ events = <<Ev("blocksImported", 2, 0, "")>>

(***************************************************************************)
(* C16: in every reachable store state every block is at least             *)
(* minBlockWidth wide and minBlockHeight high, whichever operation set its *)
(* size.                                                                   *)
(***************************************************************************)
C16_SizeAtLeastMinimum ==
  \A i \in DOMAIN blocks :
    /\ blocks[i].size.width >= settings.minBlockWidth
    /\ blocks[i].size.height >= settings.minBlockHeight

(***************************************************************************)
(* C17: setBlockSize(id,w,h) on an existing block stores exactly           *)
(* (max(w, minBlockWidth), max(h, minBlockHeight)), returns true and       *)
(* publishes blockResized.                                                 *)
(***************************************************************************)
C17_SetBlockSize ==
  [][\A id \in Ids, s \in SizeInputs :
       (HasBlock(id) /\ SetBlockSize(id, s[1], s[2])) =>
         /\ MapGet(blocks', id).size =
              [width |-> IF s[1] < settings.minBlockWidth
                           THEN settings.minBlockWidth ELSE s[1],
               height |-> IF s[2] < settings.minBlockHeight
                            THEN settings.minBlockHeight ELSE s[2]]
         /\ ret'.v = "true"
         /\ events' = <<Ev("blockResized", id, 0, "")>>]_vars

(***************************************************************************)
(* Reading positions off the state                                         *)
(***************************************************************************)
Abs(n) == IF n < 0 THEN -n ELSE n

\* m is a multiple of g and no multiple of g is nearer to v.
NearestMultiple(m, v, g) == m % g = 0 /\ 2 * Abs(m - v) <= g

\* v lies exactly between two multiples of g.
ExactHalf(v, g) == (2 * v) % g = 0 /\ v % g # 0

\* The position setBlockPosition left on block id.
Moved(id) == MapGet(blocks', id).position

(***************************************************************************)
(* C18, as claimed: setBlockPosition(id,x,y,true) stores for each          *)
(* coordinate the nearest multiple of gridSize, an exact half going away   *)
(* from zero (gridSize 20: 30 -> 40, -30 -> -40); with snapToGrid false    *)
(* the coordinates are stored as given.                                    *)
(***************************************************************************)
C18_SnapHalfAwayFromZero ==
  [][\A id \in LayoutIds, p \in PositionInputs, snapToGrid \in BOOLEAN :
       (HasBlock(id) /\ SetBlockPosition(id, p[1], p[2], snapToGrid)) =>
         LET g == settings.gridSize
             q == Moved(id)
         IN IF snapToGrid
              THEN /\ NearestMultiple(q.x, p[1], g)
                   /\ NearestMultiple(q.y, p[2], g)
                   /\ ExactHalf(p[1], g) => Abs(q.x) > Abs(p[1])
                   /\ ExactHalf(p[2], g) => Abs(q.y) > Abs(p[2])
              ELSE q = [x |-> p[1], y |-> p[2]]]_vars

(***************************************************************************)
(* C18, amended: setBlockPosition(id,x,y,true) stores for each coordinate  *)
(* the nearest multiple of gridSize, an exact half going to the greater    *)
(* multiple, towards positive infinity (gridSize 20: 27 -> 20, 33 -> 40,   *)
(* 30 -> 40, -30 -> -20); with snapToGrid false the coordinates are stored *)
(* as given.                                                               *)
(***************************************************************************)
C18_SnapHalfUp ==
  [][\A id \in LayoutIds, p \in PositionInputs, snapToGrid \in BOOLEAN :
       (HasBlock(id) /\ SetBlockPosition(id, p[1], p[2], snapToGrid)) =>
         LET g == settings.gridSize
             q == Moved(id)
         IN IF snapToGrid
              THEN /\ NearestMultiple(q.x, p[1], g)
                   /\ NearestMultiple(q.y, p[2], g)
                   /\ ExactHalf(p[1], g) => q.x > p[1]
                   /\ ExactHalf(p[2], g) => q.y > p[2]
              ELSE q = [x |-> p[1], y |-> p[2]]]_vars

\* setBlockPosition(1, -30, 30, true) with gridSize 20 stored (-20, 40).
C18_Witness ==
  /\ Succeeded("setBlockPosition")
  /\ events = <<Ev("blockMoved", 1, 0, "")>>
  /\ settings.gridSize = 20
  /\ GetBlock(1).position = [x |-> -20, y |-> 40]

\* The blocks with the greatest position.x of a non-empty store.
Rightmost(bs) ==
  {i \in DOMAIN bs : \A k \in DOMAIN bs : bs[k].position.x <= bs[i].position.x}

\* A createBlock step without position argument, and the block it adds.
AutoPlaced(id) ==
  ~HasBlock(id) /\ CreateBlock(id, "A", "default", Null, Null)

Created(id) == MapGet(blocks', id)

(***************************************************************************)
(* C19: createBlock without position places the block at (50,50) when the  *)
(* store is empty, and otherwise, for every non-empty store (those whose   *)
(* blocks all have x <= 0 included), at (m.x + defaultSpacing, m.y) where  *)
(* m is a block with the greatest position.x.                              *)
(***************************************************************************)
C19_AutoPlacement ==
  [][\A id \in LayoutIds :
       AutoPlaced(id) =>
         IF blocks = <<>>
           THEN Created(id).position = [x |-> 50, y |-> 50]
           ELSE \E i \in Rightmost(blocks) :
                  Created(id).position =
                    [x |-> blocks[i].position.x + settings.defaultSpacing,
                     y |-> blocks[i].position.y]]_vars

\* Several blocks share the greatest x, which is to the right of 0.
TiedRightmost(bs) ==
  /\ Cardinality(Rightmost(bs)) > 1
  /\ \A i \in Rightmost(bs) : bs[i].position.x > 0

First(S) == CHOOSE i \in S : \A k \in S : i <= k

Last(S) == CHOOSE i \in S : \A k \in S : k <= i

(***************************************************************************)
(* C20, as claimed: when several blocks share the greatest position.x, the *)
(* y of the auto-placed block is the y of the one scanned last.            *)
(***************************************************************************)
C20_TieLastScanned ==
  [][\A id \in LayoutIds :
       (TiedRightmost(blocks) /\ AutoPlaced(id)) =>
         Created(id).position.y = blocks[Last(Rightmost(blocks))].position.y]_vars

(***************************************************************************)
(* C20, amended: when several blocks share the greatest position.x and     *)
(* that x is greater than 0, the y of the auto-placed block is the y of    *)
(* the one scanned first in store order.                                   *)
(***************************************************************************)
C20_TieFirstScanned ==
  [][\A id \in LayoutIds :
       (TiedRightmost(blocks) /\ AutoPlaced(id)) =>
         Created(id).position.y = blocks[First(Rightmost(blocks))].position.y]_vars

\* Blocks 1 and 2 at x = 27 with y = 33 and -30; block 3 placed beside 1.
C20_Witness ==
  /\ call = "createBlock" /\ ret = [v |-> "block", id |-> 3]
  /\ Len(blocks) = 3
  /\ blocks[1].position = [x |-> 27, y |-> 33]
  /\ blocks[2].position = [x |-> 27, y |-> -30]
  /\ blocks[3].position = [x |-> 327, y |-> 33]

(***************************************************************************)
(* Editing: every operation that takes a block id, and arrangeBlocks, on   *)
(* stores that createBlock and imports have filled (one document leaves a  *)
(* link to a block that is not there, the other a block without metadata). *)
(***************************************************************************)
ColumnInputs == {1, 2}

EditDocs ==
  {DocOf(<<DocRecord(1, <<LinkString(2)>>, TRUE)>>),
   DocOf(<<DocRecord(1, <<LinkString(2)>>, TRUE), MinimalRecord(2)>>)}

NextEdit ==
  \/ \E id \in FreshIds :
       /\ Len(blocks) < MaxBlocks
       /\ GetAutoPosition(blocks).x <= MaxCoord
       /\ CreateBlock(id, "A", "default", Null, Null)
       /\ input' = NoDoc /\ UNCHANGED rendererVars
  \/ \E id \in Ids : SetBlockPosition(id, 27, 33, TRUE) /\ input' = NoDoc /\ UNCHANGED rendererVars
  \/ \E id \in Ids : SetBlockSize(id, 10, 300) /\ input' = NoDoc /\ UNCHANGED rendererVars
  \/ \E id \in Ids : SetBlockContent(id, "B") /\ input' = NoDoc /\ UNCHANGED rendererVars
  \/ \E id \in Ids : DeleteBlock(id) /\ input' = NoDoc /\ UNCHANGED rendererVars
  \/ \E columns \in ColumnInputs : ArrangeBlocks(columns) /\ input' = NoDoc /\ UNCHANGED rendererVars
  \/ \E d \in EditDocs : Import(d)

SpecEdit == Init /\ [][NextEdit]_vars

\* The operation returned false and nothing else happened.
Refused ==
  /\ ret' = [v |-> "false"]
  /\ blocks' = blocks
  /\ settings' = settings
  /\ events' = <<>>

(***************************************************************************)
(* C21: setBlockPosition, setBlockSize, setBlockContent and deleteBlock    *)
(* with an id that is not in the store return false without throwing,      *)
(* leave every block, every links table and the settings as they were and  *)
(* publish no event.                                                       *)
(***************************************************************************)
C21_NotFoundIsAValue ==
  [][\A id \in Ids :
       ~HasBlock(id) =>
         /\ SetBlockPosition(id, 27, 33, TRUE) => Refused
         /\ SetBlockSize(id, 10, 300) => Refused
         /\ SetBlockContent(id, "B") => Refused
         /\ DeleteBlock(id) => Refused]_vars

\* deleteBlock(2) was refused and block 1 still has its link to 2.
C21_Witness ==
  /\ call = "deleteBlock" /\ ret = [v |-> "false"] /\ events = <<>>
  /\ Keys(blocks) = {1}
  /\ EdgeSet(blocks) = {<<1, 2, "single">>}

\* Index i (from 0) of arrangeBlocks: column i mod columns, row floor(i / columns).
GridCell(i, columns) ==
  [x |-> 50 + (i % columns) * settings.defaultSpacing,
   y |-> 50 + (i \div columns) * settings.defaultSpacing]

\* What arrangeBlocks has to leave alone.
Unarranged(bs) ==
  [i \in DOMAIN bs |->
     [id |-> bs[i].id, content |-> bs[i].content, type |-> bs[i].type,
      size |-> bs[i].size, links |-> bs[i].links]]

(***************************************************************************)
(* C22: arrangeBlocks(columns) moves the block at index i of the store     *)
(* order to the grid-snapped image of (50 + (i mod columns) * spacing,     *)
(* 50 + floor(i / columns) * spacing), publishes one blockMoved per block  *)
(* in index order and then one blocksArranged with the number of blocks;   *)
(* links, sizes and content are untouched.                                 *)
(***************************************************************************)
C22_ArrangeBlocks ==
  [][\A columns \in ColumnInputs :
       ArrangeBlocks(columns) =>
         /\ Len(blocks') = Len(blocks)
         /\ \A i \in DOMAIN blocks :
              LET cell == GridCell(i - 1, columns)
                  q == blocks'[i].position
                  g == settings.gridSize
              IN /\ q.x % g = 0 /\ 2 * (IF q.x < cell.x THEN cell.x - q.x ELSE q.x - cell.x) <= g
                 /\ q.y % g = 0 /\ 2 * (IF q.y < cell.y THEN cell.y - q.y ELSE q.y - cell.y) <= g
         /\ events' =
              [i \in 1..(Len(blocks) + 1) |->
                 IF i <= Len(blocks) THEN Ev("blockMoved", blocks[i].id, 0, "")
                 ELSE Ev("blocksArranged", Len(blocks), 0, "")]
         /\ Unarranged(blocks') = Unarranged(blocks)]_vars

(***************************************************************************)
(* The notification bus: on, off and emit called directly, with listeners  *)
(* that return, raise, or unregister themselves while they are called.     *)
(***************************************************************************)
MaxListeners == 3

On(event, callback) ==
  /\ call' = "on"
  /\ eventListeners' = [eventListeners EXCEPT ![event] = Append(@, callback)]
  /\ ret' = [v |-> "undefined"]
  /\ events' = <<>>
  /\ invoked' = <<>>
  /\ UNCHANGED <<blocks, settings>>

Off(event, callback) ==
  /\ call' = "off"
  /\ eventListeners' = [eventListeners EXCEPT ![event] = Splice(@, callback)]
  /\ ret' = [v |-> "undefined"]
  /\ events' = <<>>
  /\ invoked' = <<>>
  /\ UNCHANGED <<blocks, settings>>

\* emit(event, data) called on the engine: returns undefined unless a listener raises.
EmitEvent(e) ==
  LET st == Emit(Start(blocks), e)
  IN /\ call' = "emit"
     /\ ret' = IF st.threw THEN [v |-> "throw"] ELSE [v |-> "undefined"]
     /\ events' = st.events
     /\ invoked' = st.invoked
     /\ eventListeners' = st.listeners
     /\ UNCHANGED <<blocks, settings>>

BusEvents == {"blockCreated", "blockDeleted"}

NextBus ==
  \/ \E event \in BusEvents, callback \in Callbacks :
       /\ Len(eventListeners[event]) < MaxListeners
       /\ On(event, callback)
       /\ input' = NoDoc /\ UNCHANGED rendererVars
  \/ \E event \in BusEvents, callback \in Callbacks :
       Off(event, callback) /\ input' = NoDoc /\ UNCHANGED rendererVars
  \/ \E event \in BusEvents : EmitEvent(Ev(event, 1, 0, "")) /\ input' = NoDoc /\ UNCHANGED rendererVars

SpecBus == Init /\ [][NextBus]_vars

\* The callbacks of the listener calls made, in the order of the calls.
Called(log) == [i \in DOMAIN log |-> log[i].cb]

\* s is t with some elements left out.
RECURSIVE IsSubseq(_, _)
IsSubseq(s, t) ==
  IF s = <<>> THEN TRUE
  ELSE IF t = <<>> THEN FALSE
  ELSE IF Head(s) = Head(t) THEN IsSubseq(Tail(s), Tail(t))
  ELSE IsSubseq(s, Tail(t))

\* The listeners of a list up to and including the first one that raises.
RECURSIVE ThroughFirstThrow(_)
ThroughFirstThrow(listeners) ==
  IF listeners = <<>> THEN <<>>
  ELSE IF Throws(Head(listeners)) THEN <<Head(listeners)>>
  ELSE <<Head(listeners)>> \o ThroughFirstThrow(Tail(listeners))

(***************************************************************************)
(* C23: emit calls the listeners registered for the event's type in their  *)
(* registration order and no listener of another type; once a listener     *)
(* raises, no listener registered after it is called and the error leaves  *)
(* emit.  When no listener changes the registrations during the dispatch,  *)
(* the calls are exactly the registered listeners up to and including the  *)
(* first that raises.                                                      *)
(***************************************************************************)
C23_DispatchOrder ==
  [][\A event \in BusEvents :
       EmitEvent(Ev(event, 1, 0, "")) =>
         LET registered == eventListeners[event]
             called == Called(invoked')
         IN /\ \A i \in DOMAIN invoked' : invoked'[i].event = Ev(event, 1, 0, "")
            /\ IsSubseq(called, registered)
            /\ \A i \in DOMAIN called : Throws(called[i]) => i = Len(called)
            /\ ret'.v = "throw" <=> \E i \in DOMAIN called : Throws(called[i])
            /\ (\A i \in DOMAIN registered : ~RemovesItself(registered[i]))
                 => called = ThroughFirstThrow(registered)]_vars

\* Three listeners of blockCreated, the second raises: two calls, in order,
\* and the listener of blockDeleted is not called.
C23_Witness ==
  /\ call = "emit" /\ ret.v = "throw"
  /\ eventListeners["blockCreated"] = <<"render", "boom", "updateConnections">>
  /\ eventListeners["blockDeleted"] = <<"updateConnections">>
  /\ Called(invoked) = <<"render", "boom">>

(***************************************************************************)
(* The store with the renderer listening: BlockRenderer.setupEventListeners *)
(* registers a listener for each event type, and every listener reads the  *)
(* store when it is called (render and updateConnections draw from it).    *)
(***************************************************************************)
\* The listener setupEventListeners registers for an event type.
RendererListener(t) ==
  IF t \in {"blockMoved", "blockResized"} THEN "updateConnections" ELSE "render"

SetupEventListeners ==
  /\ call' = "setupEventListeners"
  /\ eventListeners' =
       [t \in EventTypes |-> Append(eventListeners[t], RendererListener(t))]
  /\ ret' = [v |-> "undefined"]
  /\ events' = <<>>
  /\ invoked' = <<>>
  /\ UNCHANGED <<blocks, settings>>

NotifyIntents == {"single", "double"}

NextNotify ==
  \/ /\ \A t \in EventTypes : eventListeners[t] = <<>>
     /\ SetupEventListeners
     /\ input' = NoDoc /\ UNCHANGED rendererVars
  \/ \E id \in FreshIds :
       /\ Len(blocks) < MaxBlocks
       /\ CreateBlock(id, "A", "default", Pos(0, 0), Null)
       /\ input' = NoDoc /\ UNCHANGED rendererVars
  \/ \E id \in Ids : SetBlockPosition(id, 27, 33, TRUE) /\ input' = NoDoc /\ UNCHANGED rendererVars
  \/ \E id \in Ids : SetBlockSize(id, 10, 300) /\ input' = NoDoc /\ UNCHANGED rendererVars
  \/ \E id \in Ids : SetBlockContent(id, "B") /\ input' = NoDoc /\ UNCHANGED rendererVars
  \/ \E a, b \in Ids, t \in NotifyIntents :
       a # b /\ LinkBlocks(a, b, t) /\ input' = NoDoc /\ UNCHANGED rendererVars
  \/ \E a, b \in Ids : a # b /\ UnlinkBlocks(a, b) /\ input' = NoDoc /\ UNCHANGED rendererVars
  \/ \E id \in Ids : DeleteBlock(id) /\ input' = NoDoc /\ UNCHANGED rendererVars

SpecNotify == Init /\ [][NextNotify]_vars

\* The event type of each mutation of the store that takes a block id.
OwnEvent ==
  [createBlock |-> "blockCreated", setBlockPosition |-> "blockMoved",
   setBlockSize |-> "blockResized", setBlockContent |-> "blockUpdated",
   linkBlocks |-> "blocksLinked", unlinkBlocks |-> "blocksUnlinked",
   deleteBlock |-> "blockDeleted"]

\* The last operation is one of them and returned its value of success.
Successful == call \in DOMAIN OwnEvent /\ ret.v \in {"true", "block"}

(***************************************************************************)
(* C24: every successful createBlock, setBlockPosition, setBlockSize,      *)
(* setBlockContent, linkBlocks, unlinkBlocks and deleteBlock publishes     *)
(* exactly one event, of its own type, before it returns: each listener of *)
(* that type has been called once, and the store a listener finds during   *)
(* the dispatch is the store the operation leaves (the created block is in *)
(* it, the deleted block is not and no link points to it).                 *)
(***************************************************************************)
C24_PublishAfterMutation ==
  Successful =>
    /\ Len(events) = 1
    /\ events[1].type = OwnEvent[call]
    /\ Called(invoked) = eventListeners[OwnEvent[call]]
    /\ \A i \in DOMAIN invoked :
         /\ invoked[i].event = events[1]
         /\ invoked[i].seen = blocks
         /\ call = "createBlock" => MapHas(invoked[i].seen, ret.id)
         /\ call = "deleteBlock" =>
              /\ ~MapHas(invoked[i].seen, events[1].a)
              /\ \A e \in EdgeSet(invoked[i].seen) : e[2] # events[1].a

\* deleteBlock(2) with the renderer listening: render was called and found
\* block 1 alone, without its link to 2.
C24_Witness ==
  /\ call = "deleteBlock" /\ ret.v = "true"
  /\ events = <<Ev("blockDeleted", 2, 0, "")>>
  /\ Called(invoked) = <<"render">>
  /\ Keys(invoked[1].seen) = {1}
  /\ EdgeSet(invoked[1].seen) = {}

\* No two entries of the store have the same id.
UniqueIds(bs) == \A i, j \in DOMAIN bs : bs[i].id = bs[j].id => i = j

RECURSIVE Gcd(_, _)
Gcd(a, b) == IF b = 0 THEN a ELSE Gcd(b, a % b)

\* The fraction n / d (d > 0) in lowest terms.
Finite(n, d) ==
  LET g == Gcd(IF n < 0 THEN -n ELSE n, d)
  IN [kind |-> "finite", n |-> n \div g, d |-> d \div g]

NaN == [kind |-> "NaN", n |-> 0, d |-> 1]

Infinity(sign) == [kind |-> "Infinity", n |-> sign, d |-> 1]

Sign(n) == IF n > 0 THEN 1 ELSE IF n < 0 THEN -1 ELSE 0

IsFinite(a) == a.kind = "finite"

\* a + b
Plus(a, b) ==
  IF a.kind = "NaN" \/ b.kind = "NaN" THEN NaN
  ELSE IF a.kind = "Infinity" /\ b.kind = "Infinity"
    THEN IF a.n = b.n THEN a ELSE NaN
  ELSE IF a.kind = "Infinity" THEN a
  ELSE IF b.kind = "Infinity" THEN b
  ELSE Finite(a.n * b.d + b.n * a.d, a.d * b.d)

\* a * b
Times(a, b) ==
  IF a.kind = "NaN" \/ b.kind = "NaN" THEN NaN
  ELSE IF a.kind = "Infinity" \/ b.kind = "Infinity"
    THEN IF a.n = 0 \/ b.n = 0 THEN NaN ELSE Infinity(Sign(a.n) * Sign(b.n))
  ELSE Finite(a.n * b.n, a.d * b.d)

\* a / b
Over(a, b) ==
  IF a.kind = "NaN" \/ b.kind = "NaN" THEN NaN
  ELSE IF a.kind = "Infinity"
    THEN IF b.kind = "Infinity" THEN NaN
         ELSE Infinity(a.n * (IF b.n < 0 THEN -1 ELSE 1))
  ELSE IF b.kind = "Infinity" THEN Finite(0, 1)
  ELSE IF b.n = 0 THEN (IF a.n = 0 THEN NaN ELSE Infinity(Sign(a.n)))
  ELSE Finite(a.n * b.d * Sign(b.n), a.d * b.n * Sign(b.n))

Minus(a, b) == Plus(a, Times(Finite(-1, 1), b))

MathAbs(a) == IF IsFinite(a) THEN Finite(a.n * Sign(a.n), a.d) ELSE
              IF a.kind = "Infinity" THEN Infinity(1) ELSE NaN

MathSign(a) == IF a.kind = "NaN" THEN NaN ELSE Finite(Sign(a.n), 1)

\* a > b: false when either is NaN
GreaterThan(a, b) ==
  /\ a.kind # "NaN" /\ b.kind # "NaN"
  /\ IF a.kind = "Infinity" THEN a.n = 1 /\ b # a
     ELSE IF b.kind = "Infinity" THEN b.n = -1
     ELSE a.n * b.d > b.n * a.d

\* A DOMRect with whole coordinates.
Rect(left, top, width, height) ==
  [left |-> Finite(left, 1), top |-> Finite(top, 1),
   width |-> Finite(width, 1), height |-> Finite(height, 1)]

Two == Finite(2, 1)

CenterX(r) == Plus(r.left, Over(r.width, Two))

CenterY(r) == Plus(r.top, Over(r.height, Two))

\* Mutant of getConnectionPoint: the interpolation leaves out the sign.
ConnectionPointNoSign(sourceRect, targetRect) ==
  LET sourceCenterX == CenterX(sourceRect)
      sourceCenterY == CenterY(sourceRect)
      dx == Minus(CenterX(targetRect), sourceCenterX)
      dy == Minus(CenterY(targetRect), sourceCenterY)
      widthRatio == Over(MathAbs(dx), sourceRect.width)
      heightRatio == Over(MathAbs(dy), sourceRect.height)
  IN IF GreaterThan(widthRatio, heightRatio)
       THEN LET sign == MathSign(dx)
            IN [x |-> Plus(sourceCenterX, Times(sign, Over(sourceRect.width, Two))),
                y |-> Plus(sourceCenterY,
                           Times(dy, Over(Over(sourceRect.width, Two), dx)))]
       ELSE LET sign == MathSign(dy)
            IN [y |-> Plus(sourceCenterY, Times(sign, Over(sourceRect.height, Two))),
                x |-> Plus(sourceCenterX,
                           Times(dx, Over(Over(sourceRect.height, Two), dy)))]

(***************************************************************************)
(* getConnectionPoint on the rectangles of the two elements, in a          *)
(* container whose rectangle starts at (0, 0) and that is not scrolled.    *)
(***************************************************************************)
ConnectionPoint(sourceRect, targetRect) ==
  LET sourceCenterX == CenterX(sourceRect)
      sourceCenterY == CenterY(sourceRect)
      dx == Minus(CenterX(targetRect), sourceCenterX)
      dy == Minus(CenterY(targetRect), sourceCenterY)
      widthRatio == Over(MathAbs(dx), sourceRect.width)
      heightRatio == Over(MathAbs(dy), sourceRect.height)
  IN IF GreaterThan(widthRatio, heightRatio)
       THEN LET sign == MathSign(dx)
            IN [x |-> Plus(sourceCenterX, Times(sign, Over(sourceRect.width, Two))),
                y |-> Plus(sourceCenterY,
                           Times(dy, Over(Times(sign, Over(sourceRect.width, Two)), dx)))]
       ELSE LET sign == MathSign(dy)
            IN [y |-> Plus(sourceCenterY, Times(sign, Over(sourceRect.height, Two))),
                x |-> Plus(sourceCenterX,
                           Times(dx, Over(Times(sign, Over(sourceRect.height, Two)), dy)))]

GetConnectionPoint(sourceRect, targetRect) ==
  LET p == ConnectionPoint(sourceRect, targetRect)
  IN /\ call' = "getConnectionPoint"
     /\ input' = [source |-> sourceRect, target |-> targetRect]
     /\ ret' = [v |-> "point", x |-> p.x, y |-> p.y]
     /\ events' = <<>>
     /\ invoked' = <<>>
     /\ UNCHANGED <<blocks, settings, eventListeners>>
     /\ UNCHANGED rendererVars

\* Rectangles of positive width and height: side by side, one above the
\* other, diagonal, overlapping, and equal.
GeometryRects ==
  {Rect(left, top, width, 100) :
     left \in {0, 10, 300}, top \in {0, 20, 300}, width \in {100, 40}}

NextGeometry ==
  \E sourceRect, targetRect \in GeometryRects :
    GetConnectionPoint(sourceRect, targetRect)

SpecGeometry == Init /\ [][NextGeometry]_vars

\* Comparisons of finite numbers.
Equal(a, b) == IsFinite(a) /\ IsFinite(b) /\ a.n * b.d = b.n * a.d

AtMost(a, b) == IsFinite(a) /\ IsFinite(b) /\ a.n * b.d <= b.n * a.d

Between(a, lo, hi) ==
  \/ AtMost(lo, a) /\ AtMost(a, hi)
  \/ AtMost(hi, a) /\ AtMost(a, lo)

\* The last operation computed the anchor of input.source towards input.target.
Anchored == call = "getConnectionPoint"

Dx == Minus(CenterX(input.target), CenterX(input.source))

Dy == Minus(CenterY(input.target), CenterY(input.source))

CentersDiffer == ~Equal(Dx, Finite(0, 1)) \/ ~Equal(Dy, Finite(0, 1))

\* p is on the border of rectangle r.
OnBoundary(p, r) ==
  LET right == Plus(r.left, r.width)
      bottom == Plus(r.top, r.height)
  IN \/ /\ Equal(p.x, r.left) \/ Equal(p.x, right)
        /\ Between(p.y, r.top, bottom)
     \/ /\ Equal(p.y, r.top) \/ Equal(p.y, bottom)
        /\ Between(p.x, r.left, right)

\* p is on the straight line through the two centers.
OnCenterLine(p) ==
  Equal(Times(Minus(p.x, CenterX(input.source)), Dy),
        Times(Minus(p.y, CenterY(input.source)), Dx))

\* p is between the two centers.
OnCenterSegment(p) ==
  /\ OnCenterLine(p)
  /\ Between(p.x, CenterX(input.source), CenterX(input.target))
  /\ Between(p.y, CenterY(input.source), CenterY(input.target))

\* p is on the half-line that starts at the source's center and goes
\* through the target's center.
OnCenterRay(p) ==
  /\ OnCenterLine(p)
  /\ AtMost(Finite(0, 1), Times(Minus(p.x, CenterX(input.source)), Dx))
  /\ AtMost(Finite(0, 1), Times(Minus(p.y, CenterY(input.source)), Dy))

\* The edge the claim names: left or right by the sign of dx when
\* |dx| / width > |dy| / height, else top or bottom by the sign of dy.
OnNamedEdge(p) ==
  LET s == input.source
  IN IF GreaterThan(Over(MathAbs(Dx), s.width), Over(MathAbs(Dy), s.height))
       THEN Equal(p.x, Plus(CenterX(s), Times(MathSign(Dx), Over(s.width, Two))))
       ELSE Equal(p.y, Plus(CenterY(s), Times(MathSign(Dy), Over(s.height, Two))))

ExampleA == Rect(0, 0, 100, 100)

ExampleB == Rect(300, 0, 100, 100)

IsExample == input = [source |-> ExampleA, target |-> ExampleB]

(***************************************************************************)
(* C26 as stated: for rectangles of positive size whose centers differ the *)
(* anchor is on the source's boundary and on the segment that joins the    *)
(* two centers, on the edge named by the greater ratio; (100, 50) for the  *)
(* example.                                                                *)
(***************************************************************************)
C26_AnchorOnSegment ==
  (Anchored /\ CentersDiffer) =>
    /\ OnBoundary(ret, input.source)
    /\ OnCenterSegment(ret)
    /\ OnNamedEdge(ret)
    /\ IsExample => Equal(ret.x, Finite(100, 1)) /\ Equal(ret.y, Finite(50, 1))

(***************************************************************************)
(* C26 amended: the anchor is on the source's boundary and on the          *)
(* half-line from the source's center through the target's center (it is   *)
(* between the two centers exactly when the target's center is not inside  *)
(* the source rectangle), on the edge named by the greater ratio;          *)
(* (100, 50) for the example.                                              *)
(***************************************************************************)
C26_AnchorOnRay ==
  (Anchored /\ CentersDiffer) =>
    /\ OnBoundary(ret, input.source)
    /\ OnCenterRay(ret)
    /\ OnNamedEdge(ret)
    /\ IsExample => Equal(ret.x, Finite(100, 1)) /\ Equal(ret.y, Finite(50, 1))

\* The target is to the upper left of the source: the anchor is on the
\* source's left edge, above its middle.
C26_Witness ==
  /\ Anchored
  /\ input = [source |-> Rect(300, 20, 100, 100), target |-> Rect(0, 0, 40, 100)]
  /\ Equal(ret.x, Finite(300, 1))
  /\ Equal(ret.y, Finite(2210, 33))

(***************************************************************************)
(* C27: whenever dx = 0 or dy = 0, the case dx = dy = 0 of two rectangles  *)
(* with one center included, the anchor has two finite coordinates.        *)
(***************************************************************************)
C27_FiniteAnchor ==
  (Anchored /\ (Equal(Dx, Finite(0, 1)) \/ Equal(Dy, Finite(0, 1)))) =>
    IsFinite(ret.x) /\ IsFinite(ret.y)

(***************************************************************************)
(* Drawing the connectors (BlockRenderer.drawConnections) of stores that   *)
(* imports have filled, in every iteration order.  The pass keeps the      *)
(* connections it has drawn as strings made of the two ids with a hyphen   *)
(* between them, so the text of the ids matters: IdText gives it.  Ids     *)
(* come from documents and are any strings; generateId gives ids without a *)
(* hyphen.                                                                 *)
(***************************************************************************)
MaxDrawBlocks == 3

DrawIds == 1..MaxDrawBlocks

IdText == <<"a", "b-a", "a-b">>

\* `${from}-${to}`
ConnectionKey(from, to) == IdText[from] \o "-" \o IdText[to]

\* The links of the store in the order the two forEach loops visit them.
RECURSIVE LinksInOrder(_, _)
LinksInOrder(bs, i) ==
  IF i > Len(bs) THEN <<>>
  ELSE [j \in DOMAIN bs[i].links |->
          [from |-> bs[i].id, to |-> bs[i].links[j].id, type |-> bs[i].links[j].type]]
       \o LinksInOrder(bs, i + 1)

\* The body of the inner forEach for the links from the k-th on.
RECURSIVE DrawFrom(_, _, _, _, _)
DrawFrom(bs, rendered, links, k, acc) ==
  IF k > Len(links) THEN acc
  ELSE LET l == links[k]
           key1 == ConnectionKey(l.from, l.to)
           key2 == ConnectionKey(l.to, l.from)
           isDouble == MapHas(bs, l.to) /\ BlockHasLink(MapGet(bs, l.to), l.from)
       IN DrawFrom(bs, rendered, links, k + 1,
            IF l.from \in rendered /\ l.to \in rendered
                 /\ key1 \notin acc.drawnConnections
                 /\ key2 \notin acc.drawnConnections
              THEN [drawnConnections |->
                      acc.drawnConnections \cup {key1}
                        \cup (IF isDouble THEN {key2} ELSE {}),
                    lines |-> Append(acc.lines, l)]
              ELSE acc)

\* drawConnections with the elements of the blocks in rendered on the page:
\* the lines given to drawSmartCurvedLine, in order.
DrawConnections(rendered) ==
  LET acc == DrawFrom(blocks, rendered, LinksInOrder(blocks, 1), 1,
                      [drawnConnections |-> {}, lines |-> <<>>])
  IN /\ call' = "drawConnections"
     /\ input' = [rendered |-> rendered]
     /\ ret' = [v |-> "undefined", lines |-> acc.lines]
     /\ events' = <<>>
     /\ invoked' = <<>>
     /\ UNCHANGED <<blocks, settings, eventListeners>>
     /\ UNCHANGED rendererVars

\* The other two ids, taken round the circle 1, 2, 3.
NextId(id) == (id % MaxDrawBlocks) + 1

PrevId(id) == ((id + MaxDrawBlocks - 2) % MaxDrawBlocks) + 1

\* The links arrays of a record: none, one, or both of the other blocks.
DrawLinkLists(id) ==
  << <<>>, <<LinkString(NextId(id))>>,
     <<LinkObject(NextId(id), "double"), LinkString(PrevId(id))>> >>

\* The orders of the records in the blocks array.
DrawOrders == {p \in [DrawIds -> DrawIds] : \A i, j \in DrawIds : p[i] = p[j] => i = j}

DrawDocs ==
  {DocOf([i \in DrawIds |-> DocRecord(p[i], DrawLinkLists(p[i])[c[p[i]]], TRUE)]) :
     p \in DrawOrders, c \in [DrawIds -> DOMAIN DrawLinkLists(1)]}

\* The sets of blocks whose elements are on the page.
RenderedInputs == {r \in SUBSET DrawIds : Cardinality(r) >= 2}

NextDraw ==
  \/ \E d \in DrawDocs : Import(d)
  \/ \E rendered \in RenderedInputs :
       /\ rendered \subseteq Keys(blocks)
       /\ DrawConnections(rendered)

SpecDraw == Init /\ [][NextDraw]_vars

\* The lines drawn between a and b, in either direction.
LinesBetween(lines, a, b) ==
  {i \in DOMAIN lines : {lines[i].from, lines[i].to} = {a, b}}

(***************************************************************************)
(* C28: one drawConnections pass draws exactly one connector for every     *)
(* unordered pair of rendered blocks that has a stored edge in either      *)
(* direction, and none for any other pair, whatever the iteration order    *)
(* of the store and the kind of the link.                                  *)
(***************************************************************************)
C28_OneConnectorPerPair ==
  call = "drawConnections" =>
    \A a, b \in input.rendered :
      Cardinality(LinesBetween(ret.lines, a, b)) =
        IF HasEdge(blocks, a, b) \/ HasEdge(blocks, b, a) THEN 1 ELSE 0

(***************************************************************************)
(* The link operations alone: stores built by createBlock, linkBlocks,     *)
(* updateLinkType, unlinkBlocks and deleteBlock with the three intents,    *)
(* without any import.                                                     *)
(***************************************************************************)
NextLinks ==
  \/ \E id \in FreshIds :
       /\ Len(blocks) < MaxBlocks
       /\ GetAutoPosition(blocks).x <= MaxCoord
       /\ CreateBlock(id, "A", "default", Null, Null)
       /\ input' = NoDoc /\ UNCHANGED rendererVars
  \/ \E id \in Ids : DeleteBlock(id) /\ input' = NoDoc /\ UNCHANGED rendererVars
  \/ \E a, b \in Ids, t \in Intents : LinkBlocks(a, b, t) /\ input' = NoDoc /\ UNCHANGED rendererVars
  \/ \E a, b \in Ids, t \in Intents : UpdateLinkType(a, b, t) /\ input' = NoDoc /\ UNCHANGED rendererVars
  \/ \E a, b \in Ids : UnlinkBlocks(a, b) /\ input' = NoDoc /\ UNCHANGED rendererVars

SpecLinks == Init /\ [][NextLinks]_vars

(***************************************************************************)
(* C29: in every store built without import by createBlock, linkBlocks,    *)
(* updateLinkType, unlinkBlocks and deleteBlock with the intents single,   *)
(* reverse and double, for distinct blocks a and b: a has an entry of type *)
(* double for b exactly when b has one for a, and when a has an entry of   *)
(* type single for b, b has no entry for a.                                *)
(***************************************************************************)
C29_EdgeTypesConsistent ==
  \A a, b \in Ids :
    a # b =>
      /\ "double" \in EdgeTypes(blocks, a, b) <=> "double" \in EdgeTypes(blocks, b, a)
      /\ "single" \in EdgeTypes(blocks, a, b) => ~HasEdge(blocks, b, a)

\* A two-sided link that a later reverse intent has turned into the one
\* edge from 2 to 1.
C29_Witness ==
  /\ call = "updateLinkType" /\ ret.v = "true"
  /\ EdgeSet(blocks) = {<<2, 1, "single">>}

(***************************************************************************)
(* C30: after linkBlocks(a, b, 'single') has returned true, for every pair *)
(* a, b (a = b included), getLinkInfo(a, b) reports the type single from a *)
(* to b.                                                                   *)
(***************************************************************************)
C30_SingleIsReportedSingle ==
  \A a, b \in Ids :
    Linked(a, b, "single") =>
      GetLinkInfo(blocks, a, b) = [v |-> "info", type |-> "single", from |-> a, to |-> b]

(***************************************************************************)
(* C31: whenever linkBlocks(a, b, intent) has returned true and published  *)
(* blocksLinked, getLinkInfo(a, b) is not null, for every intent a caller  *)
(* can pass, the ones that are none of single, reverse and double          *)
(* included.                                                               *)
(***************************************************************************)
C31_LinkedMeansEdge ==
  \A a, b \in Ids, t \in LinkTypeInputs :
    Linked(a, b, t) => GetLinkInfo(blocks, a, b).v = "info"

(***************************************************************************)
(* The link operations on a pair of blocks that has links to and from a    *)
(* third block: imports of the blocks of Ids and a third block, linked     *)
(* among them (with and without their metadata records), and of the blocks *)
(* of Ids alone with their links to the third, followed by linkBlocks,     *)
(* updateLinkType and unlinkBlocks on every pair of Ids.                   *)
(***************************************************************************)
ThirdBlock == MaxBlocks + 1

FrameRecords(hasMetadata) ==
  [i \in 1..ThirdBlock |->
     IF i = 1
       THEN DocRecord(1, <<LinkString(2), LinkString(ThirdBlock)>>, hasMetadata)
     ELSE IF i = ThirdBlock
       THEN DocRecord(i, <<LinkObject(MaxBlocks, "double"), LinkString(1)>>,
                      hasMetadata)
     ELSE IF i = MaxBlocks
       THEN DocRecord(i, <<LinkObject(ThirdBlock, "double")>>, hasMetadata)
     ELSE DocRecord(i, <<>>, hasMetadata)]

FrameDocs ==
  {DocOf(FrameRecords(TRUE)), DocOf(FrameRecords(FALSE)),
   DocOf(SubSeq(FrameRecords(TRUE), 1, MaxBlocks))}

NextFrame ==
  \/ \E d \in FrameDocs : Import(d)
  \/ \E a, b \in Ids, t \in LinkTypeInputs :
       LinkBlocks(a, b, t) /\ input' = NoDoc /\ UNCHANGED rendererVars
  \/ \E a, b \in Ids, t \in LinkTypeInputs :
       UpdateLinkType(a, b, t) /\ input' = NoDoc /\ UNCHANGED rendererVars
  \/ \E a, b \in Ids : UnlinkBlocks(a, b) /\ input' = NoDoc /\ UNCHANGED rendererVars

SpecFrame == Init /\ [][NextFrame]_vars

\* Between the stores before and after: the same blocks in the same order
\* with their content, type, position and size, and every links entry but
\* the ones from a to b and from b to a as it was.
Frame(before, after, a, b) ==
  /\ Len(after) = Len(before)
  /\ \A i \in DOMAIN before :
       /\ after[i].id = before[i].id
       /\ after[i].content = before[i].content
       /\ after[i].type = before[i].type
       /\ after[i].position = before[i].position
       /\ after[i].size = before[i].size
       /\ \A d \in Keys(before[i].links) \cup Keys(after[i].links) :
            <<before[i].id, d>> \notin {<<a, b>>, <<b, a>>} =>
              /\ MapHas(before[i].links, d) /\ MapHas(after[i].links, d)
              /\ MapGet(after[i].links, d) = MapGet(before[i].links, d)

(***************************************************************************)
(* C32: linkBlocks(a, b, _), updateLinkType(a, b, _) and unlinkBlocks(a,   *)
(* b) leave the set of blocks, every block's content, position and size,   *)
(* and every links entry that is not the one from a to b or from b to a    *)
(* (the links of a and b to third blocks, all links of the other blocks)   *)
(* as they were, whatever the call returns.                                *)
(***************************************************************************)
C32_LinkOperationsFrame ==
  [][\A a, b \in Ids :
       /\ \A t \in LinkTypeInputs :
            (LinkBlocks(a, b, t) \/ UpdateLinkType(a, b, t)) =>
              Frame(blocks, blocks', a, b)
       /\ UnlinkBlocks(a, b) => Frame(blocks, blocks', a, b)
       /\ settings' = settings]_vars

\* linkBlocks(1, 2, 'reverse') on the imported store: the link from 1 to 2
\* has given way to one from 2 to 1, the link from 1 to 3 and the two-sided
\* link of 2 and 3 are still there.
C32_Witness ==
  /\ Linked(1, 2, "reverse")
  /\ EdgeSet(blocks) =
       {<<2, 1, "single">>, <<1, 3, "single">>, <<3, 1, "single">>,
        <<2, 3, "double">>, <<3, 2, "double">>}

\* How many times cb is in the list s.
Count(s, cb) == Cardinality({i \in DOMAIN s : s[i] = cb})

(***************************************************************************)
(* C33: when a listener unregisters itself with off(event, itself) while   *)
(* the event is dispatched and no listener raises, every other listener    *)
(* that was registered for the event when the dispatch began is called     *)
(* exactly once for each of its registrations: the self-removal makes emit *)
(* skip no later listener.                                                 *)
(***************************************************************************)
C33_SelfRemovalSkipsNone ==
  [][\A event \in BusEvents :
       EmitEvent(Ev(event, 1, 0, "")) =>
         LET registered == eventListeners[event]
         IN (\A i \in DOMAIN registered : ~Throws(registered[i])) =>
              \A cb \in Callbacks :
                ~RemovesItself(cb) =>
                  Count(Called(invoked'), cb) = Count(registered, cb)]_vars

(***************************************************************************)
(* Registrations and dispatches, with the arguments of the last on or off  *)
(* kept in input.                                                          *)
(***************************************************************************)
Registration(event, callback) == [event |-> event, callback |-> callback]

\* One event type is enough to tell registrations of one callback apart.
OffEvents == {"blockDeleted"}

NextOff ==
  \/ \E event \in OffEvents, callback \in Callbacks :
       /\ Len(eventListeners[event]) < MaxListeners
       /\ On(event, callback)
       /\ input' = Registration(event, callback)
       /\ UNCHANGED rendererVars
  \/ \E event \in OffEvents, callback \in Callbacks :
       /\ Off(event, callback)
       /\ input' = Registration(event, callback)
       /\ UNCHANGED rendererVars
  \/ \E event \in OffEvents : EmitEvent(Ev(event, 1, 0, "")) /\ input' = NoDoc /\ UNCHANGED rendererVars

SpecOff == Init /\ [][NextOff]_vars

(***************************************************************************)
(* C34: once off(event, cb) has returned, an emit of that event does not   *)
(* call cb, whatever the registrations were, cb registered with            *)
(* on(event, cb) more than once included.                                  *)
(***************************************************************************)
C34_OffSilences ==
  [][(call = "off" /\ EmitEvent(Ev(input.event, 1, 0, ""))) =>
       Count(Called(invoked'), input.callback) = 0]_vars

(***************************************************************************)
(* importFromJSON with listeners of blocksImported registered: documents   *)
(* that install one or two blocks, with and without settings, a document   *)
(* whose blocks array holds null, and a text that does not parse.          *)
(***************************************************************************)
ListenDocs ==
  {DocOf(<<DocRecord(1, <<LinkString(2)>>, TRUE), MinimalRecord(2)>>),
   [DocOf(<<DocRecord(1, <<>>, TRUE)>>) EXCEPT
      !.hasSettings = TRUE, !.settings = [gridSize |-> 10]],
   DocOf(<<NullRecord>>),
   Unparseable}

NextListen ==
  \/ \E callback \in Callbacks :
       /\ Len(eventListeners["blocksImported"]) < MaxListeners
       /\ On("blocksImported", callback)
       /\ input' = NoDoc /\ UNCHANGED rendererVars
  \/ \E d \in ListenDocs : Import(d)

SpecListen == Init /\ [][NextListen]_vars

\* Every record of the document d is in the store bs as importFromJSON
\* installs it.
Installed(d, bs) ==
  /\ WellFormed(d)
  /\ Keys(bs) = RecordIds(d)
  /\ \A id \in RecordIds(d) : MapGet(bs, id) = ImportBlock(LastRecord(d, id)).block

(***************************************************************************)
(* C35: whenever importFromJSON has installed every block record of the    *)
(* document and merged its settings, it returns true, also when a listener *)
(* of blocksImported raises during the dispatch.                           *)
(***************************************************************************)
C35_InstalledMeansTrue ==
  [][(/\ call' = "importFromJSON"
      /\ Installed(input', blocks')
      /\ settings' = IF input'.hasSettings
                       THEN MergeSettings(settings, input'.settings)
                       ELSE settings)
       => ret'.v = "true"]_vars

(***************************************************************************)
(* C36: importFromJSON of a text that is not parseable JSON returns false, *)
(* publishes no event and leaves the blocks, their links and the settings  *)
(* exactly as they were.                                                   *)
(***************************************************************************)
C36_UnparseableIsRefused ==
  [][Import(Unparseable) => Refused /\ invoked' = <<>>]_vars

\* A text that does not parse was refused by a store that holds a block and
\* carries the gridSize of an earlier document.
C36_Witness ==
  /\ Imported /\ input = Unparseable
  /\ ret = [v |-> "false"] /\ events = <<>>
  /\ blocks # <<>>
  /\ settings.gridSize = 10

(***************************************************************************)
(* C37: whenever importFromJSON returns false, the settings are what they  *)
(* were before the call.                                                   *)
(***************************************************************************)
C37_FailedImportKeepsSettings ==
  [][(call' = "importFromJSON" /\ ret'.v = "false") => settings' = settings]_vars

\* The operations of the store that call a mutator of Block.
Mutators ==
  {"setBlockContent", "setBlockPosition", "setBlockSize", "linkBlocks",
   "unlinkBlocks", "deleteBlock"}

(***************************************************************************)
(* C38: after any successful importFromJSON, documents whose block records *)
(* omit metadata included, every block of the store has its metadata       *)
(* record, and setBlockContent, setBlockPosition, setBlockSize,            *)
(* linkBlocks, unlinkBlocks and deleteBlock return a boolean and do not    *)
(* throw.                                                                  *)
(***************************************************************************)
C38_ImportedBlocksHaveMetadata ==
  /\ \A i \in DOMAIN blocks : blocks[i].metadata
  /\ call \in Mutators => ret.v \in {"true", "false"}

(***************************************************************************)
(* The page: BlockRenderer on top of the store.  Its constructor registers *)
(* the listeners (setupEventListeners), so every event the store publishes *)
(* calls render() or updateConnections() before the store's operation      *)
(* returns.  render() rebuilds the block elements of the container from    *)
(* the store and leaves the rest of its work (drawConnections,             *)
(* createMinimap, restoring the link editor) to a setTimeout(..., 0)       *)
(* callback; the callbacks run one at a time, in the order they were       *)
(* scheduled, between the user's actions.  What is drawn inside the        *)
(* elements is left out.                                                   *)
(***************************************************************************)
MaxTimers == 2

\* this.linkEditor when the popup of block blockId is open (null otherwise).
Editor(blockId) == [null |-> FALSE, blockId |-> blockId]

\* The callback render() gives to setTimeout: it holds linkEditorBlockId,
\* read from this.linkEditor when render() began.
RenderTimer(editor) == [kind |-> "render", linkEditorBlockId |-> editor]

\* The callback openLinkEditor gives to setTimeout: it moves the popup.
AdjustTimer == [kind |-> "adjust", linkEditorBlockId |-> Null]

\* The effect on the page of the render() calls the listeners of the
\* store's operation have made: each rebuilt the container from the store
\* and scheduled its callback.
Rendered ==
  LET n == Cardinality({i \in DOMAIN invoked' : invoked'[i].cb = "render"})
  IN /\ container' = IF n > 0 THEN Keys(blocks') ELSE container
     /\ timers' = timers \o [i \in 1..n |-> RenderTimer(linkEditor)]

SelectBlock(id, multiSelect) ==
  LET cleared == IF multiSelect THEN selectedBlocks ELSE {}
  IN /\ call' = "selectBlock"
     /\ selectedBlocks' = IF id \in cleared THEN cleared \ {id} ELSE cleared \cup {id}
     /\ ret' = [v |-> "undefined"]
     /\ events' = <<>>
     /\ invoked' = <<>>
     /\ UNCHANGED <<blocks, settings, eventListeners, linkEditor, container, timers>>

\* BlockRenderer.deleteBlock(id), the confirm dialog answered with OK.
RendererDeleteBlock(id) ==
  /\ DeleteBlock(id)
  /\ Rendered
  /\ UNCHANGED <<selectedBlocks, linkEditor>>

\* this.closeLinkEditor(); then, if the store has the block, the new popup.
OpenedEditor(bs, blockId) == IF MapHas(bs, blockId) THEN Editor(blockId) ELSE Null

\* The oldest pending setTimeout callback runs.
RunTimer ==
  /\ timers # <<>>
  /\ LET t == Head(timers)
         restores == /\ t.kind = "render"
                     /\ ~t.linkEditorBlockId.null
                     /\ t.linkEditorBlockId.blockId \in container
     IN IF restores
          THEN /\ linkEditor' = OpenedEditor(blocks, t.linkEditorBlockId.blockId)
               /\ timers' = IF HasBlock(t.linkEditorBlockId.blockId)
                              THEN Append(Tail(timers), AdjustTimer)
                              ELSE Tail(timers)
          ELSE /\ linkEditor' = linkEditor
               /\ timers' = Tail(timers)
  /\ UNCHANGED <<blocks, settings, call, ret, events, input, eventListeners,
                 invoked, selectedBlocks, container>>

\* new BlockRenderer(engine, containerId)
NewBlockRenderer ==
  /\ \A t \in EventTypes : eventListeners[t] = <<>>
  /\ SetupEventListeners
  /\ input' = NoDoc
  /\ UNCHANGED <<selectedBlocks, linkEditor, container, timers>>

SelectDocs ==
  {DocOf(<<DocRecord(1, <<LinkString(2)>>, TRUE), DocRecord(2, <<>>, TRUE)>>),
   DocOf(<<DocRecord(1, <<>>, TRUE)>>)}

(***************************************************************************)
(* Selecting and deleting on the page: clicks on block elements            *)
(* (selectBlock, with and without the ctrl key), the delete button of a    *)
(* block element, deleteBlock called on the engine, and imports.           *)
(***************************************************************************)
NextSelect ==
  \/ NewBlockRenderer
  \/ \E d \in SelectDocs :
       /\ Len(timers) < MaxTimers
       /\ ImportFromJSON(d)
       /\ input' = d
       /\ Rendered
       /\ UNCHANGED <<selectedBlocks, linkEditor>>
  \/ \E id \in container, multiSelect \in BOOLEAN :
       SelectBlock(id, multiSelect) /\ input' = NoDoc
  \/ \E id \in container :
       /\ Len(timers) < MaxTimers
       /\ RendererDeleteBlock(id)
       /\ input' = NoDoc
  \/ \E id \in Ids :
       /\ Len(timers) < MaxTimers
       /\ DeleteBlock(id)
       /\ Rendered
       /\ input' = NoDoc
       /\ UNCHANGED <<selectedBlocks, linkEditor>>
  \/ RunTimer

SpecSelect == Init /\ [][NextSelect]_vars

(***************************************************************************)
(* C39: after any sequence of selectBlock, renderer.deleteBlock            *)
(* (confirmed), engine.deleteBlock and importFromJSON, every id in         *)
(* selectedBlocks is the id of a block of the store (so getSelectedBlocks  *)
(* holds no null and linkSelected passes no unknown id to linkBlocks).     *)
(***************************************************************************)
C39_SelectionExists == \A id \in selectedBlocks : HasBlock(id)

(***************************************************************************)
(* The link editor popup.  openLinkEditor lists the links of its block as  *)
(* the store has them: an item for every outgoing link whose target        *)
(* exists, and one for every incoming link the block does not answer.      *)
(* An item has the buttons of the link types and a delete button.          *)
(***************************************************************************)
OpenLinkEditor(blockId) ==
  /\ call' = "openLinkEditor"
  /\ linkEditor' = OpenedEditor(blocks, blockId)
  /\ timers' = IF HasBlock(blockId) THEN Append(timers, AdjustTimer) ELSE timers
  /\ ret' = [v |-> "undefined"]
  /\ events' = <<>>
  /\ invoked' = <<>>
  /\ UNCHANGED <<blocks, settings, eventListeners, selectedBlocks, container>>

\* The items of the popup of blockId: pairs <<fromBlock.id, toBlock.id>>.
OutgoingItems(bs, blockId) ==
  {<<blockId, target>> : target \in Keys(MapGet(bs, blockId).links) \cap Keys(bs)}

IncomingItems(bs, blockId) ==
  {<<bs[i].id, blockId>> : i \in {j \in DOMAIN bs :
      BlockHasLink(bs[j], blockId) /\ ~BlockHasLink(MapGet(bs, blockId), bs[j].id)}}

\* The type buttons of an item: three on an outgoing link, "make
\* bidirectional" on an incoming one.
TypeButtons(bs, blockId, item) ==
  IF item \in OutgoingItems(bs, blockId) THEN {"single", "reverse", "double"}
  ELSE {"double"}

\* The items of the popup that is open (none when no popup is).
EditorItems ==
  IF linkEditor.null \/ ~HasBlock(linkEditor.blockId) THEN {}
  ELSE OutgoingItems(blocks, linkEditor.blockId)
         \cup IncomingItems(blocks, linkEditor.blockId)

Button(name, item) == [button |-> name, from |-> item[1], to |-> item[2]]

\* onclick of a link-type button: updateLinkType, then closeLinkEditor
\* (not reached when updateLinkType throws).
ClickLinkType(fromId, toId, type) ==
  /\ UpdateLinkType(fromId, toId, type)
  /\ Rendered
  /\ linkEditor' = IF ret'.v = "throw" THEN linkEditor ELSE Null
  /\ input' = Button(type, <<fromId, toId>>)
  /\ UNCHANGED selectedBlocks

\* onclick of the delete button of an item: unlinkBlocks, then
\* closeLinkEditor.
ClickDeleteLink(fromId, toId) ==
  /\ UnlinkBlocks(fromId, toId)
  /\ Rendered
  /\ linkEditor' = IF ret'.v = "throw" THEN linkEditor ELSE Null
  /\ input' = Button("delete", <<fromId, toId>>)
  /\ UNCHANGED selectedBlocks

(***************************************************************************)
(* The user at the page: blocks are created and linked, the popup of a     *)
(* block element is opened, one of its buttons is clicked.  The user       *)
(* clicks when no timer callback is pending (a callback scheduled with     *)
(* delay 0 runs before the next click), so the popup clicked is on the     *)
(* page and shows the links of the store.                                  *)
(***************************************************************************)
NextEditor ==
  \/ NewBlockRenderer
  \/ \E id \in FreshIds :
       /\ Len(blocks) < MaxBlocks
       /\ Len(timers) < MaxTimers
       /\ CreateBlock(id, "A", "default", Pos(0, 0), Null)
       /\ Rendered
       /\ input' = NoDoc
       /\ UNCHANGED <<selectedBlocks, linkEditor>>
  \/ \E a, b \in Ids, t \in NotifyIntents :
       /\ a # b
       /\ Len(timers) < MaxTimers
       /\ LinkBlocks(a, b, t)
       /\ Rendered
       /\ input' = NoDoc
       /\ UNCHANGED <<selectedBlocks, linkEditor>>
  \/ \E id \in container :
       /\ timers = <<>>
       /\ OpenLinkEditor(id)
       /\ input' = NoDoc
  \/ /\ timers = <<>>
     /\ \E item \in EditorItems :
          \E type \in TypeButtons(blocks, linkEditor.blockId, item) :
            ClickLinkType(item[1], item[2], type)
  \/ /\ timers = <<>>
     /\ \E item \in EditorItems : ClickDeleteLink(item[1], item[2])
  \/ RunTimer

SpecEditor == Init /\ [][NextEditor]_vars

\* The last action of the user was a click on a button of the popup, and
\* the engine's operation returned true.
Clicked ==
  /\ call \in {"updateLinkType", "unlinkBlocks"}
  /\ "button" \in DOMAIN input
  /\ ret.v = "true"

(***************************************************************************)
(* C40: after the user has clicked a link-type button or the delete button *)
(* of the link editor popup, the popup is closed once every timer callback *)
(* scheduled by the render() of that click has run: the deferred restore   *)
(* step of render() does not open the popup again.                         *)
(***************************************************************************)
C40_EditorStaysClosed == (Clicked /\ timers = <<>>) => linkEditor.null

====
